---- MODULE Spec2Model ----
(***************************************************************************)
(* Model of DataScraping/character_segment.py (CharacterSegmenter): the    *)
(* candidate filter (filter_masks, calculate_iou), the per-image driver    *)
(* (segment_image), the batch driver (segment_batch) and the segmentation  *)
(* ledger (metadata dict and segmentation_metadata.json).                  *)
(*                                                                         *)
(* Numbers.  A mask is the set of its true pixels, a pixel being its index *)
(* y * width + x; mask.sum() is the cardinality.  Scores are tenths (0.9   *)
(* is 9).  The code compares in floating point: area against              *)
(* image_area * 0.005 and image_area * 0.85, and intersection / union      *)
(* against 0.7.  For integer areas far below 2^53 these comparisons agree  *)
(* with the exact rational ones (the products and the quotient are         *)
(* correctly rounded and 0.005, 0.85 and 0.7 are within 3e-17 relative of  *)
(* their decimal values, so an exact boundary value rounds to itself and   *)
(* no other value comes within an ulp of a boundary); the model therefore  *)
(* compares cross-multiplied integers.                                     *)
(***************************************************************************)
EXTENDS Integers, Sequences, FiniteSets, TLC

(***************************************************************************)
(* Bounds of the model.                                                    *)
(***************************************************************************)
ImgW == 20
ImgH == 10
MaxLen == 3
MaxTiles == 20

(***************************************************************************)
(* Program constants.                                                      *)
(***************************************************************************)
MinAreaPermille == 5
MaxAreaPercent == 85
IouThresholdTenths == 7
MaxCharacters == 15

VARIABLES
  \* CharacterSegmenter and its output directory
  source_images,       \* the source image paths the caller passes in
  constructed,         \* __init__ returned normally (FALSE: it raised)
  model_loaded,        \* self.model and self.processor are set (setup_sam3 succeeded)
  metadata,            \* self.metadata: image_id -> record
  metadata_file,       \* segmentation_metadata.json: absent, corrupt, or a dict
  files,               \* the crop files present in output_dir
  unsaved,             \* the last save_metadata call of this process raised
  \* the last operation and what it returned
  op,                  \* the last operation: "construct", "delete_crop", "segment_image",
                       \* "batch_start", "directory_start", "directory_empty", "batch_end"
  s_path,              \* segment_image's image_path argument
  s_force,             \* segment_image's force argument
  outcome,             \* the return statement segment_image left by
  ledger_check,        \* what its idempotence test found: no_record, complete, missing
  ret,                 \* segment_image's return value
  oracle_calls,        \* oracle invocations made by that segment_image call
  cropped,             \* the crops that call saved: output path, region, score
  scene,               \* what the oracle saw in that call, where a run records it
  \* segment_batch
  b_pc,                \* "idle", "running", "returned", "raised"
  image_paths,         \* its image_paths argument
  b_force,             \* its force argument
  b_i,                 \* images of image_paths already processed
  results,             \* its results dict
  total_characters,    \* its running total
  \* filter_masks on its own
  f_pc,                \* "ready" before filter_masks is called, "done" after
  f_in,                \* the list handed to filter_masks, as the oracle gave it
  image_area,          \* filter_masks' image_area argument
  masks_with_scores,   \* the caller's list object (filter_masks sorts it in place)
  filtered,            \* filter_masks' return value
  \* one function called on its own
  u_pc,                \* "ready" before the call, "done" after
  u_in,                \* its arguments
  u_out,               \* its return value
  \* the two desktop applications
  sorter,              \* a CharacterSorter, its files and its metadata file
  pipeline,            \* a UnifiedPipeline, its worker threads and its files
  \* the two tools used on their own
  scraper,             \* a MemeScraper, its metadata and its download directory
  captioner            \* an ImageCaptioner and the directory it captions

segvars == <<source_images, constructed, model_loaded, metadata, metadata_file, files,
             unsaved, op, s_path, s_force, outcome, ledger_check, ret, oracle_calls,
             cropped, scene>>
batchvars == <<b_pc, image_paths, b_force, b_i, results, total_characters>>
filtervars == <<f_pc, f_in, image_area, masks_with_scores, filtered>>
unitvars == <<u_pc, u_in, u_out>>
toolvars == <<scraper, captioner>>
appvars == <<sorter, pipeline, toolvars>>
vars == <<segvars, batchvars, filtervars, unitvars, appvars>>

(***************************************************************************)
(* calculate_iou and the threshold comparison of filter_masks.             *)
(***************************************************************************)
\* A plausible slip: the intersection taken over the first mask, not the union.
IouOverFirst(mask1, mask2) ==
  LET intersection == Cardinality(mask1 \cap mask2)
      first == Cardinality(mask1)
  IN  IF first > 0 THEN [num |-> intersection, den |-> first]
                   ELSE [num |-> 0, den |-> 1]

\* calculate_iou: intersection / union as a fraction, 0 when the union is 0.
calculate_iou(mask1, mask2) ==
  LET intersection == Cardinality(mask1 \cap mask2)
      union == Cardinality(mask1 \cup mask2)
  IN  IF union > 0 THEN [num |-> intersection, den |-> union]
                   ELSE [num |-> 0, den |-> 1]

\* A plausible slip: iou >= iou_threshold.
IouExceedsAtLeast(iou) == iou.num * 10 >= IouThresholdTenths * iou.den

\* iou > iou_threshold (line 237), iou_threshold = 0.7.
IouExceeds(iou) == iou.num * 10 > IouThresholdTenths * iou.den

\* A plausible slip: inclusive area bounds.
AreaValidInclusive(mask, area_of_image) ==
  /\ MinAreaPermille * area_of_image <= 1000 * Cardinality(mask)
  /\ 100 * Cardinality(mask) <= MaxAreaPercent * area_of_image

\* min_area < area < max_area (lines 222-228).
AreaValid(mask, area_of_image) ==
  /\ MinAreaPermille * area_of_image < 1000 * Cardinality(mask)
  /\ 100 * Cardinality(mask) < MaxAreaPercent * area_of_image

(***************************************************************************)
(* masks_with_scores.sort(key=score, reverse=True): a stable sort; among   *)
(* equal scores the original order is kept.                                *)
(***************************************************************************)
\* A plausible slip: an unstable sort that puts a later equal score first.
RECURSIVE InsertBeforeTies(_, _)
InsertBeforeTies(sorted, c) ==
  IF sorted = <<>> THEN <<c>>
  ELSE IF Head(sorted).score > c.score
       THEN <<Head(sorted)>> \o InsertBeforeTies(Tail(sorted), c)
       ELSE <<c>> \o sorted

RECURSIVE InsertByScore(_, _)
InsertByScore(sorted, c) ==
  IF sorted = <<>> THEN <<c>>
  ELSE IF Head(sorted).score >= c.score
       THEN <<Head(sorted)>> \o InsertByScore(Tail(sorted), c)
       ELSE <<c>> \o sorted

RECURSIVE InsertAscending(_, _)
InsertAscending(sorted, c) ==
  IF sorted = <<>> THEN <<c>>
  ELSE IF Head(sorted).score <= c.score
       THEN <<Head(sorted)>> \o InsertAscending(Tail(sorted), c)
       ELSE <<c>> \o sorted

\* A plausible slip: reverse=True forgotten (ascending order).
RECURSIVE SortAscending(_)
SortAscending(s) ==
  IF s = <<>> THEN <<>>
  ELSE InsertAscending(SortAscending(SubSeq(s, 1, Len(s) - 1)), s[Len(s)])

RECURSIVE SortByScore(_)
SortByScore(s) ==
  IF s = <<>> THEN <<>>
  ELSE InsertByScore(SortByScore(SubSeq(s, 1, Len(s) - 1)), s[Len(s)])

\* The area filter loop (lines 225-229).
AreaFilter(sorted, area_of_image) ==
  SelectSeq(sorted, LAMBDA c : AreaValid(c.mask, area_of_image))

\* A plausible slip: len(filtered) > 15.
CapReachedLate(accepted) == Len(accepted) > MaxCharacters

\* len(filtered) >= 15 (line 242).
CapReached(accepted) == Len(accepted) >= MaxCharacters

\* keep (lines 234-239): no accepted mask overlaps mask1 beyond the threshold.
Keep(mask1, accepted) ==
  \A k \in 1..Len(accepted) :
     ~IouExceeds(calculate_iou(mask1, accepted[k].mask))

\* The suppression loop (lines 232-243) from index i on.
RECURSIVE Suppress(_, _, _)
Suppress(valid_masks, i, accepted) ==
  IF i > Len(valid_masks) THEN accepted
  ELSE IF Keep(valid_masks[i].mask, accepted)
       THEN LET more == Append(accepted, valid_masks[i])
            IN  IF CapReached(more) THEN more
                ELSE Suppress(valid_masks, i + 1, more)
       ELSE Suppress(valid_masks, i + 1, accepted)

\* filter_masks (lines 203-245): its return value.
filter_masks(mws, area_of_image) ==
  IF mws = <<>> THEN <<>>
  ELSE Suppress(AreaFilter(SortByScore(mws), area_of_image), 1, <<>>)

(***************************************************************************)
(* Inputs of the filter: every list of at most MaxLen candidates over a    *)
(* set of masks with boundary areas and boundary overlaps, and lists of up *)
(* to MaxTiles pairwise disjoint masks.                                    *)
(***************************************************************************)
ImageArea == ImgW * ImgH

MaskA == 0..9
MaskB == 0..6
MaskC == 0..7
MaskD == 10..19
MaskMin == {p \in 0..(ImageArea - 1) : 1000 * (p + 1) <= MinAreaPermille * ImageArea}
MaskMax == {p \in 0..(ImageArea - 1) : 100 * (p + 1) <= MaxAreaPercent * ImageArea}

ShortMasks == {MaskA, MaskB, MaskC, MaskD, MaskMin, MaskMax}
ShortScores == {8, 9}
ShortCandidates == [mask : ShortMasks, score : ShortScores]

RECURSIVE SeqsUpTo(_, _)
SeqsUpTo(S, n) ==
  IF n = 0 THEN {<<>>}
  ELSE LET shorter == SeqsUpTo(S, n - 1)
       IN  shorter \cup {Append(s, c) : s \in {t \in shorter : Len(t) = n - 1}, c \in S}

Tile(k) == {p \in 0..(ImageArea - 1) : p % MaxTiles = k}

TilePatterns == {"equal", "rising", "twice"}

TileCandidate(pat, i) ==
  CASE pat = "equal"  -> [mask |-> Tile(i - 1), score |-> 8]
    [] pat = "rising" -> [mask |-> Tile(i - 1), score |-> 7 + (i % 3)]
    [] pat = "twice"  -> [mask |-> Tile((i - 1) \div 2), score |-> 8]

TileInputs == {[i \in 1..n |-> TileCandidate(pat, i)] : n \in 1..MaxTiles, pat \in TilePatterns}

FilterInputs == SeqsUpTo(ShortCandidates, MaxLen) \cup TileInputs

(***************************************************************************)
(* The oracle.  One scenario is what the model answers during one          *)
(* segment_image call: the text prompt's (mask, score) list or an error,   *)
(* the objects a point prompt finds (those whose mask holds the point),    *)
(* and the point call that raises, if any.                                 *)
(***************************************************************************)
GridSize == 6
TextThresholdTenths == 5
PointThresholdTenths == 6
Padding == 10

Block(x0, x1, y0, y1) ==
  {p \in 0..(ImageArea - 1) : p % ImgW \in x0..x1 /\ p \div ImgW \in y0..y1}

ObjLeft == Block(0, (ImgW \div 2) - 1, 0, (ImgH \div 2) - 1)
ObjRight == Block(ImgW \div 2, ImgW - 1, ImgH \div 2, ImgH - 1)

TextAnswers ==
  { [raises |-> TRUE, masks |-> <<>>],
    [raises |-> FALSE, masks |-> <<>>],
    [raises |-> FALSE,
     masks |-> <<[mask |-> ObjLeft, score |-> 9], [mask |-> ObjRight, score |-> 5]>>] }

SceneObjects ==
  { <<>>,
    <<[mask |-> ObjLeft, score |-> 6], [mask |-> ObjRight, score |-> 7]>> }

\* The point call that raises: none (0), the first, the last.
PointFailures == {0, 1, GridSize * GridSize}

OracleScenarios ==
  [text : TextAnswers, objects : SceneObjects, point_fail : PointFailures]

\* generate_point_grid (lines 70-88).
generate_point_grid(width, height, grid_size) ==
  [n \in 1..(grid_size * grid_size) |->
     LET i == ((n - 1) \div grid_size) + 1
         j == ((n - 1) % grid_size) + 1
     IN  <<(width * i) \div (grid_size + 1), (height * j) \div (grid_size + 1)>>]

\* What the oracle returns for one point prompt.
PointAnswer(sc, point, width) ==
  SelectSeq(sc.objects, LAMBDA c : (point[2] * width + point[1]) \in c.mask)

\* Strategy 1 of segment_automatic (lines 157-171).
TextMasks(sc) ==
  IF sc.text.raises THEN <<>>
  ELSE SelectSeq(sc.text.masks, LAMBDA c : c.score > TextThresholdTenths)

\* Strategy 2 of segment_automatic (lines 173-189): the masks gathered from
\* point n on; the loop ends at the call that raises.
RECURSIVE PointMasks(_, _, _, _)
PointMasks(sc, grid_points, n, width) ==
  IF n > Len(grid_points) \/ sc.point_fail = n THEN <<>>
  ELSE SelectSeq(PointAnswer(sc, grid_points[n], width),
                 LAMBDA c : c.score > PointThresholdTenths)
       \o PointMasks(sc, grid_points, n + 1, width)

\* Oracle invocations of one segment_automatic call.
OracleCallsOf(sc) ==
  1 + (IF sc.point_fail \in 1..(GridSize * GridSize) THEN sc.point_fail
       ELSE GridSize * GridSize)

\* A plausible slip: cols.all() tested in place of cols.any().
MaskToBboxAllCols(mask, width) ==
  LET xs == {p % width : p \in mask}
      ys == {p \div width : p \in mask}
      y_min == CHOOSE y \in ys : \A o \in ys : y <= o
      y_max == CHOOSE y \in ys : \A o \in ys : y >= o
  IN  IF mask = {} \/ xs # 0..(width - 1) THEN <<>>
      ELSE <<0, y_min, width - 1, y_max - y_min>>

\* mask_to_bbox (lines 253-272): <<x, y, width, height>>, or <<>> for None.
mask_to_bbox(mask, width) ==
  IF mask = {} THEN <<>>
  ELSE LET xs == {p % width : p \in mask}
           ys == {p \div width : p \in mask}
           x_min == CHOOSE x \in xs : \A o \in xs : x <= o
           x_max == CHOOSE x \in xs : \A o \in xs : x >= o
           y_min == CHOOSE y \in ys : \A o \in ys : y <= o
           y_max == CHOOSE y \in ys : \A o \in ys : y >= o
       IN  <<x_min, y_min, x_max - x_min, y_max - y_min>>

\* segment_automatic (lines 144-201): the (mask, bbox, score) results.
segment_automatic(sc, width, height) ==
  LET all_masks == TextMasks(sc)
                   \o PointMasks(sc, generate_point_grid(width, height, GridSize), 1, width)
      filtered_masks == filter_masks(all_masks, width * height)
      withbox == [k \in 1..Len(filtered_masks) |->
                    [mask  |-> filtered_masks[k].mask,
                     bbox  |-> mask_to_bbox(filtered_masks[k].mask, width),
                     score |-> filtered_masks[k].score]]
  IN  SelectSeq(withbox, LAMBDA r : r.bbox # <<>>)

\* What segment_image sees of one scenario on an ImgW x ImgH source image:
\* the bounding boxes and scores of masks_data in order, the oracle calls made
\* and the size of the decoded image.
SizedScenarios ==
  { [text |-> sc.text, objects |-> sc.objects, point_fail |-> sc.point_fail,
     size |-> <<ImgW, ImgH>>] : sc \in OracleScenarios }

OracleResultOf(sc) ==
  LET md == segment_automatic(sc, sc.size[1], sc.size[2])
  IN  [boxes  |-> [k \in 1..Len(md) |-> md[k].bbox],
       scores |-> [k \in 1..Len(md) |-> md[k].score],
       calls  |-> OracleCallsOf(sc),
       size   |-> sc.size]

OracleResults == {OracleResultOf(sc) : sc \in SizedScenarios}

(***************************************************************************)
(* Paths.  A source image path is its parent, stem and suffix; Path.stem   *)
(* is the stem.  A crop path is output_dir / f"{image_id}_char_{idx:02d}.png". *)
(***************************************************************************)
PathA1 == [parent |-> "a", stem |-> "m1", suffix |-> ".jpg"]
PathA2 == [parent |-> "a", stem |-> "m2", suffix |-> ".jpg"]
PathB1 == [parent |-> "b", stem |-> "m1", suffix |-> ".png"]

\* The images of one run: two of different stems, or two of the same stem in
\* different directories.
SourceSets == {{PathA1, PathA2}, {PathA1, PathB1}}

image_id_of(image_path) == image_path.stem

RECURSIVE Digits(_)
Digits(n) == IF n < 10 THEN <<n>> ELSE Digits(n \div 10) \o <<n % 10>>

\* A plausible slip: f"{idx}", no zero padding.
FormatUnpadded(idx) == Digits(idx)

\* f"{idx:02d}": the decimal digits, zero-padded to at least two.
Format02d(idx) == IF idx < 10 THEN <<0, idx>> ELSE Digits(idx)

CropPath(image_id, idx) ==
  [parent |-> "character_crops", id |-> image_id, tag |-> "_char_",
   digits |-> Format02d(idx), suffix |-> ".png"]

Range(f) == {f[x] : x \in DOMAIN f}

(***************************************************************************)
(* The ledger: load_metadata and save_metadata.                            *)
(***************************************************************************)
EmptyDict == [x \in {} |-> x]
AbsentFile == [state |-> "absent", data |-> EmptyDict]
CorruptFile == [state |-> "corrupt", data |-> EmptyDict]

\* A plausible slip: a file that does not parse is read as an empty ledger.
JsonLoadSwallowed(file) == FALSE

\* json.load (line 46) raises on a file whose content does not parse.
JsonLoadRaises(file) == file.state = "corrupt"

\* load_metadata (lines 42-47) on a file that parses or is absent (on a
\* corrupt file json.load raises: see Construct).
load_metadata(file) == file.data

\* A plausible slip: the file is not rewritten.
SavedFileSkipped(file, dict, how) == file

\* What save_metadata (lines 49-52) leaves in the file: the whole dict when it
\* succeeds; a truncated file when the write fails after open(..., 'w').
SavedFile(file, dict, how) ==
  CASE how = "ok"         -> [state |-> "ok", data |-> dict]
    [] how = "dump_fails" -> CorruptFile

SaveOutcomes == {"ok", "dump_fails"}

(***************************************************************************)
(* segment_image (lines 274-352).  env is what the environment does during *)
(* the call: whether the image decodes, the oracle's scenario, the crop    *)
(* write that fails (0: none) and how save_metadata ends.                  *)
(***************************************************************************)
max(a, b) == IF a >= b THEN a ELSE b
min(a, b) == IF a <= b THEN a ELSE b

\* A plausible slip: the padded box is not clipped to the image.
CropBoxUnclipped(bbox, width, height) ==
  <<bbox[1] - Padding, bbox[2] - Padding,
    bbox[1] + bbox[3] + Padding, bbox[2] + bbox[4] + Padding>>

\* A plausible slip: the padding is taken off the far edges instead of added.
CropBoxPaddedInward(bbox, width, height) ==
  <<max(0, bbox[1] - Padding), max(0, bbox[2] - Padding),
    min(width, bbox[1] + bbox[3] - Padding), min(height, bbox[2] + bbox[4] - Padding)>>

\* A plausible slip: the box clipped to the image but not padded.
CropBoxNoPadding(bbox, width, height) ==
  <<max(0, bbox[1]), max(0, bbox[2]),
    min(width, bbox[1] + bbox[3]), min(height, bbox[2] + bbox[4])>>

\* Lines 316-328: the region (x_min, y_min, x_max, y_max) handed to image.crop.
CropBox(bbox, width, height) ==
  LET x == bbox[1]
      y == bbox[2]
      box_w == bbox[3]
      box_h == bbox[4]
      x_min == max(0, x - Padding)
      y_min == max(0, y - Padding)
      x_max == min(width, (x + box_w) + Padding)
      y_max == min(height, (y + box_h) + Padding)
  IN  <<x_min, y_min, x_max, y_max>>

\* The most crops one call writes, and so the crop writes that can fail.
MaxBoxes == CHOOSE n \in 0..MaxCharacters :
              /\ \E r \in OracleResults : Len(r.boxes) = n
              /\ \A r \in OracleResults : Len(r.boxes) <= n

Envs ==
  [decodes : {FALSE}, oracle : {CHOOSE r \in OracleResults : TRUE},
   write_fail : {0}, save : {"ok"}]
  \cup {e \in [decodes : {TRUE}, oracle : OracleResults,
               write_fail : 1..MaxBoxes, save : {"ok"}] :
          e.write_fail <= Len(e.oracle.boxes)}
  \cup [decodes : {TRUE}, oracle : OracleResults,
        write_fail : {0}, save : SaveOutcomes]

\* A plausible slip: the existence check dropped from the idempotence test.
AlreadySegmentedNoCheck(dict, on_disk, image_id, force) ==
  ~force /\ image_id \in DOMAIN dict

\* A plausible slip: the force flag not consulted.
AlreadySegmentedIgnoresForce(dict, on_disk, image_id, force) ==
  /\ image_id \in DOMAIN dict
  /\ \A crop \in Range(dict[image_id].character_crops) : crop \in on_disk

\* A plausible slip: the force flag read the wrong way round.
AlreadySegmentedInverted(dict, on_disk, image_id, force) ==
  /\ force
  /\ image_id \in DOMAIN dict
  /\ \A crop \in Range(dict[image_id].character_crops) : crop \in on_disk

\* A plausible slip: 'if existing_crops and all(...)', an empty list not
\* taken for a result.
AlreadySegmentedNeedsCrops(dict, on_disk, image_id, force) ==
  /\ ~force
  /\ image_id \in DOMAIN dict
  /\ dict[image_id].character_crops # <<>>
  /\ \A crop \in Range(dict[image_id].character_crops) : crop \in on_disk

\* Lines 289-294: the cached list is returned.
AlreadySegmented(dict, on_disk, image_id, force) ==
  /\ ~force
  /\ image_id \in DOMAIN dict
  /\ \A crop \in Range(dict[image_id].character_crops) : crop \in on_disk

\* A plausible slip: the count taken from the oracle's candidates, not the crops.
NewRecordMiscounted(image_path, character_images, masks_data) ==
  [source_image    |-> image_path,
   character_count |-> Len(masks_data) + 1,
   character_crops |-> character_images,
   method          |-> "sam3_auto"]

\* Lines 337-342: the record written for an image.
NewRecord(image_path, character_images, masks_data) ==
  [source_image    |-> image_path,
   character_count |-> Len(character_images),
   character_crops |-> character_images,
   method          |-> "sam3_auto"]

\* A plausible slip: the decode, crop and save steps left outside the try.
Uncaught(r) == [r EXCEPT !.raised = TRUE]

\* except Exception (lines 348-352): the error is printed, [] is returned.
Caught(r) == [r EXCEPT !.raised = FALSE, !.ret = <<>>]

\* A plausible slip: the model test left out.
ModelUnavailableIgnored(st) == FALSE

\* Line 298: self.model is None or self.processor is None.
ModelUnavailable(st) == ~st.model_loaded

\* What the idempotence test finds for image_id, whatever force is.
LedgerCheck(dict, on_disk, image_id) ==
  IF image_id \notin DOMAIN dict THEN "no_record"
  ELSE IF \A crop \in Range(dict[image_id].character_crops) : crop \in on_disk
       THEN "complete"
       ELSE "missing"

\* A plausible slip: the record assigned before the crops are written.
LedgerRecordedEarly(dict, image_id, record) == (image_id :> record) @@ dict

\* The ledger after a crop write raised: the assignment of lines 337-342
\* follows the loop and is skipped.
LedgerOnCropFailure(dict, image_id, record) == dict

\* The state a segment_image call leaves and what it returns.  raised is
\* whether an exception leaves the call.
SegmentImage(st, image_path, force, env) ==
  LET image_id == image_id_of(image_path)
      same == [st EXCEPT !.ret = <<>>, !.oracle_calls = 0, !.raised = FALSE,
                         !.cropped = <<>>,
                         !.ledger_check =
                            LedgerCheck(st.metadata, st.files, image_id)]
  IN
  IF AlreadySegmented(st.metadata, st.files, image_id, force)
  THEN [same EXCEPT !.ret = st.metadata[image_id].character_crops,
                    !.outcome = "cached"]
  ELSE IF ModelUnavailable(st)
  THEN [same EXCEPT !.outcome = "no_model"]
  ELSE IF ~env.decodes
  THEN Caught([same EXCEPT !.outcome = "decode_error"])
  ELSE
    LET masks_data == env.oracle.boxes
        calls == env.oracle.calls
        n == Len(masks_data)
        written == IF env.write_fail \in 1..n THEN env.write_fail - 1 ELSE n
        character_images == [k \in 1..written |-> CropPath(image_id, k - 1)]
        saved == [k \in 1..written |->
                    [output_path |-> character_images[k],
                     region |-> CropBox(masks_data[k], env.oracle.size[1],
                                        env.oracle.size[2]),
                     score |-> env.oracle.scores[k]]]
        on_disk == st.files \cup Range(character_images)
    IN
    IF written < n
    THEN Caught([same EXCEPT !.files = on_disk, !.oracle_calls = calls,
                             !.metadata =
                                LedgerOnCropFailure(st.metadata, image_id,
                                   NewRecord(image_path, character_images, masks_data)),
                             !.cropped = saved, !.outcome = "write_error"])
    ELSE
      LET dict == (image_id :> NewRecord(image_path, character_images, masks_data))
                  @@ st.metadata
          file == SavedFile(st.metadata_file, dict, env.save)
      IN  IF env.save = "ok"
          THEN [same EXCEPT !.files = on_disk, !.metadata = dict,
                            !.metadata_file = file, !.unsaved = FALSE,
                            !.oracle_calls = calls, !.cropped = saved,
                            !.ret = character_images, !.outcome = "ok"]
          ELSE Caught([same EXCEPT !.files = on_disk, !.metadata = dict,
                                   !.metadata_file = file, !.unsaved = TRUE,
                                   !.oracle_calls = calls, !.cropped = saved,
                                   !.outcome = "save_error"])

\* The segmenter's state as SegmentImage takes it.
Current ==
  [model_loaded |-> model_loaded, metadata |-> metadata,
   metadata_file |-> metadata_file, files |-> files, unsaved |-> unsaved,
   ret |-> <<>>, oracle_calls |-> 0, cropped |-> <<>>, outcome |-> "none",
   ledger_check |-> "none", raised |-> FALSE]

Apply(r, image_path, force) ==
  /\ metadata' = r.metadata
  /\ metadata_file' = r.metadata_file
  /\ files' = r.files
  /\ unsaved' = r.unsaved
  /\ ret' = r.ret
  /\ oracle_calls' = r.oracle_calls
  /\ cropped' = r.cropped
  /\ outcome' = IF r.raised THEN "raised" ELSE r.outcome
  /\ ledger_check' = r.ledger_check
  /\ s_path' = image_path
  /\ s_force' = force
  /\ op' = "segment_image"
  /\ UNCHANGED <<source_images, constructed, model_loaded>>

(***************************************************************************)
(* Operations.                                                             *)
(***************************************************************************)
NoPath == [parent |-> "", stem |-> "", suffix |-> ""]

NoScene == [text |-> [raises |-> FALSE, masks |-> <<>>], objects |-> <<>>,
            point_fail |-> 0, size |-> <<0, 0>>]

Forget ==
  /\ s_path' = NoPath
  /\ s_force' = FALSE
  /\ outcome' = "none"
  /\ ledger_check' = "none"
  /\ ret' = <<>>
  /\ oracle_calls' = 0
  /\ cropped' = <<>>
  /\ scene' = NoScene

\* __init__ (lines 13-40) in a new process over the same output directory.
Construct ==
  /\ b_pc # "running"
  /\ op' = "construct"
  /\ Forget
  /\ IF JsonLoadRaises(metadata_file)
     THEN /\ constructed' = FALSE
          /\ metadata' = EmptyDict
          /\ model_loaded' = FALSE
     ELSE /\ constructed' = TRUE
          /\ metadata' = load_metadata(metadata_file)
          /\ model_loaded' \in BOOLEAN
  /\ unsaved' = FALSE
  /\ b_pc' = "idle"
  /\ image_paths' = <<>>
  /\ b_force' = FALSE
  /\ b_i' = 0
  /\ results' = EmptyDict
  /\ total_characters' = 0
  /\ UNCHANGED <<source_images, metadata_file, files, filtervars, unitvars, appvars>>

\* Somebody deletes one crop file of the output directory.
DeleteCrop ==
  /\ b_pc = "idle"
  /\ \E crop \in files : files' = files \ {crop}
  /\ op' = "delete_crop"
  /\ Forget
  /\ UNCHANGED <<source_images, constructed, model_loaded, metadata, metadata_file,
                 unsaved, batchvars, filtervars, unitvars, appvars>>

\* The environments a call can meet.  A call that returns the recorded crops
\* (lines 289-294) or finds no model (lines 298-300) returns before the image
\* is opened and meets none of them.
EnvsMet(st, image_path, force) ==
  IF \/ AlreadySegmented(st.metadata, st.files, image_id_of(image_path), force)
     \/ ModelUnavailable(st)
  THEN {CHOOSE env \in Envs : TRUE}
  ELSE Envs

\* One call of segment_image from outside a batch.
SegmentImageCall ==
  /\ constructed
  /\ b_pc = "idle"
  /\ \E image_path \in source_images, force \in BOOLEAN :
     \E env \in EnvsMet(Current, image_path, force) :
        Apply(SegmentImage(Current, image_path, force, env), image_path, force)
  /\ scene' = NoScene
  /\ UNCHANGED <<batchvars, filtervars, unitvars, appvars>>

(***************************************************************************)
(* segment_batch (lines 354-388), one image per step.                      *)
(***************************************************************************)
MaxBatch == 2

\* segment_batch entered (lines 365-370).
BatchBegin(paths, force) ==
  /\ image_paths' = paths
  /\ b_force' = force
  /\ b_pc' = "running"
  /\ b_i' = 0
  /\ results' = EmptyDict
  /\ total_characters' = 0
  /\ Forget
  /\ UNCHANGED <<source_images, constructed, model_loaded, metadata, metadata_file,
                 files, unsaved, filtervars, unitvars, appvars>>

SegmentBatchStart ==
  /\ constructed
  /\ b_pc = "idle"
  /\ op' = "batch_start"
  /\ \E paths \in SeqsUpTo(source_images, MaxBatch), force \in BOOLEAN :
        BatchBegin(paths, force)

(***************************************************************************)
(* segment_directory (lines 390-413).  iterdir() lists a directory in any  *)
(* order; the list is not sorted before it is handed to segment_batch.     *)
(***************************************************************************)
ImageExtensions == {".jpg", ".jpeg", ".png", ".gif", ".bmp", ".webp"}

\* str.lower() on the suffixes of the model.
Lower(suffix) ==
  CASE suffix = ".JPG" -> ".jpg"
    [] suffix = ".PNG" -> ".png"
    [] OTHER -> suffix

NotesFile(dir) == [parent |-> dir, stem |-> "notes", suffix |-> ".txt"]

Directories == {"a", "b", "c"}

\* The entries of a directory: the source images in it and, in a and c, a
\* text file.
DirEntries(dir) ==
  {q \in source_images : q.parent = dir}
  \cup (IF dir \in {"a", "c"} THEN {NotesFile(dir)} ELSE {})

Orderings(S) ==
  {f \in [1..Cardinality(S) -> S] : \A x \in S : \E i \in DOMAIN f : f[i] = x}

SegmentDirectoryStart ==
  /\ constructed
  /\ b_pc = "idle"
  /\ \E image_dir \in Directories, force \in BOOLEAN :
     \E listing \in Orderings(DirEntries(image_dir)) :
        LET paths == SelectSeq(listing,
                               LAMBDA q : Lower(q.suffix) \in ImageExtensions)
        IN  IF paths = <<>>
            THEN /\ op' = "directory_empty"
                 /\ b_pc' = "returned"
                 /\ image_paths' = <<>>
                 /\ b_force' = force
                 /\ b_i' = 0
                 /\ results' = EmptyDict
                 /\ total_characters' = 0
                 /\ Forget
                 /\ UNCHANGED <<source_images, constructed, model_loaded, metadata,
                                metadata_file, files, unsaved, filtervars, unitvars, appvars>>
            ELSE /\ op' = "directory_start"
                 /\ BatchBegin(paths, force)

\* The loop body (lines 372-376).
SegmentBatchStep ==
  /\ b_pc = "running"
  /\ b_i < Len(image_paths)
  /\ \E env \in EnvsMet(Current, image_paths[b_i + 1], b_force) :
        LET image_path == image_paths[b_i + 1]
            r == SegmentImage(Current, image_path, b_force, env)
        IN  /\ Apply(r, image_path, b_force)
            /\ scene' = NoScene
            /\ IF r.raised
               THEN /\ b_pc' = "raised"
                    /\ UNCHANGED <<b_i, results, total_characters>>
               ELSE /\ results' = (image_id_of(image_path) :> r.ret) @@ results
                    /\ total_characters' = total_characters + Len(r.ret)
                    /\ b_i' = b_i + 1
                    /\ b_pc' = "running"
  /\ UNCHANGED <<image_paths, b_force, filtervars, unitvars, appvars>>

\* The summary (lines 378-388): the average divides by len(image_paths).
SegmentBatchEnd ==
  /\ b_pc = "running"
  /\ b_i = Len(image_paths)
  /\ b_pc' = IF Len(image_paths) = 0 THEN "raised" ELSE "returned"
  /\ op' = "batch_end"
  /\ UNCHANGED <<source_images, constructed, model_loaded, metadata, metadata_file, files,
                 unsaved, s_path, s_force, outcome, ledger_check, ret, oracle_calls,
                 cropped, scene, image_paths, b_force, b_i, results, total_characters, filtervars, unitvars, appvars>>

FilterIdle ==
  /\ f_pc = "idle"
  /\ f_in = <<>>
  /\ image_area = 0
  /\ masks_with_scores = <<>>
  /\ filtered = <<>>

UnitIdle ==
  /\ u_pc = "idle"
  /\ u_in = <<>>
  /\ u_out = <<>>

\* Neither desktop application has been started.
NoApp == [on |-> FALSE]

ToolsIdle ==
  /\ scraper = NoApp
  /\ captioner = NoApp

AppsIdle ==
  /\ sorter = NoApp
  /\ pipeline = NoApp
  /\ ToolsIdle

SegmenterIdle ==
  /\ constructed = TRUE
  /\ metadata = EmptyDict
  /\ metadata_file = AbsentFile
  /\ files = {}
  /\ unsaved = FALSE
  /\ op = "construct"
  /\ s_path = NoPath
  /\ s_force = FALSE
  /\ outcome = "none"
  /\ ledger_check = "none"
  /\ ret = <<>>
  /\ oracle_calls = 0
  /\ cropped = <<>>
  /\ scene = NoScene
  /\ b_pc = "idle"
  /\ image_paths = <<>>
  /\ b_force = FALSE
  /\ b_i = 0
  /\ results = EmptyDict
  /\ total_characters = 0

\* A segmenter constructed over an empty output directory.
Init ==
  /\ SegmenterIdle
  /\ source_images \in SourceSets
  /\ model_loaded \in BOOLEAN
  /\ FilterIdle
  /\ UnitIdle
  /\ AppsIdle

Next ==
  \/ Construct
  \/ DeleteCrop
  \/ SegmentImageCall

Spec == Init /\ [][Next]_vars

NextBatch ==
  \/ Construct
  \/ SegmentBatchStart
  \/ SegmentDirectoryStart
  \/ SegmentBatchStep
  \/ SegmentBatchEnd

SpecBatch == Init /\ [][NextBatch]_vars

\* Single calls, batches and directory runs together.
SpecAll == Init /\ [][Next \/ NextBatch]_vars

(***************************************************************************)
(* Properties of the ledger and of segment_image.                          *)
(***************************************************************************)
Failures == {"no_model", "decode_error", "write_error", "save_error"}

CalledId == image_id_of(s_path')

HasRecord == CalledId \in DOMAIN metadata

AllCropsExist ==
  \A crop \in Range(metadata[CalledId].character_crops) : crop \in files

\* The call wrote a fresh record for its image and saved the ledger.
Rewritten ==
  /\ oracle_calls' > 0
  /\ CalledId \in DOMAIN metadata'
  /\ metadata'[CalledId].source_image = s_path'
  /\ metadata'[CalledId].character_crops = ret'
  /\ Range(ret') \subseteq files'
  /\ metadata_file' = [state |-> "ok", data |-> metadata']

\* C1: a non-forced segment_image call for an image whose ledger record exists
\* and whose recorded crops all exist returns the recorded list, calls the
\* oracle zero times and leaves ledger, ledger file and crop files as they
\* were; and a non-forced call right after a call for the same image that
\* returned its record's list (fresh or cached) returns the same list with no
\* oracle call.
LedgerIdempotence ==
  [][ /\ (op' = "segment_image" /\ ~s_force' /\ HasRecord /\ AllCropsExist)
         => /\ ret' = metadata[CalledId].character_crops
            /\ oracle_calls' = 0
            /\ metadata' = metadata
            /\ metadata_file' = metadata_file
            /\ files' = files
      /\ (/\ op = "segment_image" /\ ~s_force /\ outcome \in {"ok", "cached"}
          /\ op' = "segment_image" /\ ~s_force'
          /\ CalledId = image_id_of(s_path))
         => /\ ret' = ret
            /\ oracle_calls' = 0
    ]_vars

\* C1: a non-forced call has just returned a non-empty cached list.
CachedReturnReached ==
  /\ op = "segment_image"
  /\ ~s_force
  /\ ledger_check = "complete"
  /\ outcome = "cached"
  /\ ret # <<>>
  /\ oracle_calls = 0

\* C2 as stated: a non-forced call for an image whose record lists a missing
\* crop always invokes the oracle, rewrites the crops and replaces the record.
ReprocessOnMissingAlways ==
  [][ (op' = "segment_image" /\ ~s_force' /\ HasRecord /\ ~AllCropsExist)
      => (outcome' # "cached" /\ Rewritten) ]_vars

\* C2 amended: a non-forced call for an image whose record lists a missing crop
\* never returns the cached list; it returns the empty list without a new
\* record when the oracle is not loaded or the image does not decode or a crop
\* write fails, the empty list when the ledger save fails, and otherwise
\* invokes the oracle, writes the crops, replaces the record by the new list
\* and returns that list.
ReprocessOnMissing ==
  [][ (op' = "segment_image" /\ ~s_force' /\ HasRecord /\ ~AllCropsExist)
      => /\ outcome' \in Failures \cup {"ok"}
         /\ (outcome' = "no_model") <=> ~model_loaded
         /\ outcome' = "ok" => Rewritten
         /\ outcome' \in Failures => ret' = <<>>
         /\ outcome' \in {"no_model", "decode_error", "write_error"}
               => (metadata' = metadata /\ metadata_file' = metadata_file)
    ]_vars

\* C2: a non-forced call found a record with a missing crop and reprocessed.
ReprocessedReached ==
  /\ op = "segment_image"
  /\ ~s_force
  /\ ledger_check = "missing"
  /\ outcome = "ok"
  /\ oracle_calls > 0
  /\ ret # <<>>

\* C3 as stated: a forced call never returns the cached list, and on a record
\* whose crops all exist it always invokes the oracle and rewrites the record.
ForceAlwaysReprocesses ==
  [][ (op' = "segment_image" /\ s_force')
      => /\ outcome' # "cached"
         /\ (HasRecord /\ AllCropsExist) => Rewritten ]_vars

\* C3 amended: a forced call never returns the cached list; on a record whose
\* crops all exist it invokes the oracle and rewrites the record unless the
\* call fails (oracle not loaded, decode error, crop write or ledger save
\* error), and then it returns the empty list.
ForceBypassesCache ==
  [][ (op' = "segment_image" /\ s_force')
      => /\ outcome' \in Failures \cup {"ok"}
         /\ (outcome' = "no_model") <=> ~model_loaded
         /\ (HasRecord /\ AllCropsExist /\ outcome' = "ok") => Rewritten
         /\ outcome' \in Failures => ret' = <<>>
    ]_vars

\* C3: a forced call found a complete record and reprocessed the image.
ForcedReprocessReached ==
  /\ op = "segment_image"
  /\ s_force
  /\ ledger_check = "complete"
  /\ outcome = "ok"
  /\ oracle_calls > 0

\* C4: every record of the ledger, in memory and in the ledger file, has
\* character_count equal to the length of character_crops.
CropRecordInvariant ==
  /\ \A id \in DOMAIN metadata :
        metadata[id].character_count = Len(metadata[id].character_crops)
  /\ \A id \in DOMAIN metadata_file.data :
        metadata_file.data[id].character_count
           = Len(metadata_file.data[id].character_crops)

\* C4: after a batch, the ledger holds a record with two crops and one with none.
CountedRecordsReached ==
  /\ b_pc = "returned"
  /\ \E id \in DOMAIN metadata : metadata[id].character_count = 2
  /\ \E id \in DOMAIN metadata : metadata[id].character_crops = <<>>

FailureContained ==
  /\ [](b_pc = "raised" => image_paths = <<>>)
  /\ [](b_pc \in {"running", "returned"} =>
           \A k \in 1..b_i : image_id_of(image_paths[k]) \in DOMAIN results)
  /\ [](b_pc = "returned" => b_i = Len(image_paths))
  /\ [][ (b_pc = "running" /\ op' = "segment_image")
         => /\ b_pc' = "running"
            /\ b_i' = b_i + 1
            /\ s_path' = image_paths[b_i + 1]
            /\ results'[CalledId] = ret'
            /\ outcome' \in Failures => results'[CalledId] = <<>>
            /\ \A id \in (DOMAIN results) \ {CalledId} : results'[id] = results[id]
       ]_vars

\* C6: in a batch of two images the first failed (it has no record and no
\* crops) and the second was then segmented into crops.
ContainedFailureReached ==
  /\ b_pc = "running"
  /\ Len(image_paths) = 2
  /\ b_i = 2
  /\ image_id_of(image_paths[1]) # image_id_of(image_paths[2])
  /\ image_id_of(image_paths[1]) \notin DOMAIN metadata
  /\ results[image_id_of(image_paths[1])] = <<>>
  /\ outcome = "ok"
  /\ results[image_id_of(image_paths[2])] # <<>>

(***************************************************************************)
(* The filter on its own: one call of filter_masks on a drawn input.       *)
(***************************************************************************)
InitFilter ==
  /\ SegmenterIdle
  /\ source_images = {}
  /\ model_loaded = TRUE
  /\ f_pc = "ready"
  /\ f_in \in FilterInputs
  /\ image_area = ImageArea
  /\ masks_with_scores = f_in
  /\ filtered = <<>>
  /\ UnitIdle
  /\ AppsIdle

FilterCall ==
  /\ f_pc = "ready"
  /\ filtered' = filter_masks(masks_with_scores, image_area)
  /\ masks_with_scores' = SortByScore(masks_with_scores)
  /\ f_pc' = "done"
  /\ UNCHANGED <<f_in, image_area, segvars, batchvars, unitvars, appvars>>

NextFilter == FilterCall

SpecFilter == InitFilter /\ [][NextFilter]_vars

(***************************************************************************)
(* segment_image with the oracle's scenario kept: one source image, the    *)
(* scenarios of OracleScenarios on an ImgW x ImgH image and the example of *)
(* a 100x100 image whose text prompt returns masks of 50, 5000 and 9500    *)
(* pixels with scores 0.9, 0.8 and 0.3.                                    *)
(***************************************************************************)
ExampleScene ==
  [text |-> [raises |-> FALSE,
             masks |-> <<[mask |-> 0..49, score |-> 9],
                         [mask |-> 5000..9999, score |-> 8],
                         [mask |-> 0..9499, score |-> 3]>>],
   objects |-> <<>>, point_fail |-> 0, size |-> <<100, 100>>]

Scenes == SizedScenarios \cup {ExampleScene}

SceneResults == [sc \in Scenes |-> OracleResultOf(sc)]

\* What the environment can do in a call that sees scenario sc.
SceneEnvs(sc) ==
  [decodes : {FALSE}, oracle : {SceneResults[sc]}, write_fail : {0}, save : {"ok"}]
  \cup [decodes : {TRUE}, oracle : {SceneResults[sc]},
        write_fail : 1..Len(SceneResults[sc].boxes), save : {"ok"}]
  \cup [decodes : {TRUE}, oracle : {SceneResults[sc]},
        write_fail : {0}, save : SaveOutcomes]

InitScene ==
  /\ SegmenterIdle
  /\ source_images = {PathA1}
  /\ model_loaded \in BOOLEAN
  /\ FilterIdle
  /\ UnitIdle
  /\ AppsIdle

\* One call of segment_image; scene is the scenario if the oracle was reached.
SegmentSceneCall ==
  /\ constructed
  /\ b_pc = "idle"
  /\ \E image_path \in source_images, force \in BOOLEAN, sc \in Scenes :
     \E env \in SceneEnvs(sc) :
        LET r == SegmentImage(Current, image_path, force, env)
        IN  /\ Apply(r, image_path, force)
            /\ scene' = IF r.oracle_calls > 0 THEN sc ELSE NoScene
  /\ UNCHANGED <<batchvars, filtervars, unitvars, appvars>>

NextScene == SegmentSceneCall

SpecScene == InitScene /\ [][NextScene]_vars

(***************************************************************************)
(* calculate_iou on its own, over every pair of masks of IouPixels pixels. *)
(***************************************************************************)
IouPixels == 4

IouMasks == SUBSET (0..(IouPixels - 1))

\* Nothing but the one function call happens.
RestIdle ==
  /\ SegmenterIdle
  /\ source_images = {}
  /\ model_loaded = TRUE
  /\ FilterIdle

InitIou ==
  /\ RestIdle
  /\ AppsIdle
  /\ u_pc = "ready"
  /\ u_in \in [mask1 : IouMasks, mask2 : IouMasks]
  /\ u_out = <<>>

\* calculate_iou(mask1, mask2), calculate_iou(mask2, mask1) and
\* calculate_iou(mask1, mask1).
IouCall ==
  /\ u_pc = "ready"
  /\ u_out' = [ab |-> calculate_iou(u_in.mask1, u_in.mask2),
               ba |-> calculate_iou(u_in.mask2, u_in.mask1),
               aa |-> calculate_iou(u_in.mask1, u_in.mask1)]
  /\ u_pc' = "done"
  /\ UNCHANGED <<u_in, segvars, batchvars, filtervars, appvars>>

NextIou == IouCall

SpecIou == InitIou /\ [][NextIou]_vars

(***************************************************************************)
(* The crop region on its own.  A bbox is what mask_to_bbox gives for a    *)
(* mask whose outermost true columns are x0 and x1 and outermost true rows *)
(* y0 and y1 on an image of SmallSide or LargeSide pixels a side; the      *)
(* columns and rows are those at 0, 1 and the padding from either edge.    *)
(***************************************************************************)
SmallSide == 15
LargeSide == 24

CropEdges(side) ==
  {c \in 0..(side - 1) :
     \/ c \in {0, 1, Padding - 1, Padding, Padding + 1}
     \/ (side - 1) - c \in {0, 1, Padding - 1, Padding, Padding + 1}}

\* The outermost columns (or rows) of a mask: lo <= hi.
CropSpans(side) ==
  {span \in CropEdges(side) \X CropEdges(side) : span[1] <= span[2]}

ImageSides == {SmallSide, LargeSide}

CropInputsOn(w, h) ==
  { [bbox |-> <<xs[1], ys[1], xs[2] - xs[1], ys[2] - ys[1]>>,
     width |-> w, height |-> h] : xs \in CropSpans(w), ys \in CropSpans(h) }

InitCrop ==
  /\ RestIdle
  /\ AppsIdle
  /\ u_pc = "ready"
  /\ \E w \in ImageSides, h \in ImageSides : u_in \in CropInputsOn(w, h)
  /\ u_out = <<>>

\* Lines 316-328 for one candidate.
CropCall ==
  /\ u_pc = "ready"
  /\ u_out' = CropBox(u_in.bbox, u_in.width, u_in.height)
  /\ u_pc' = "done"
  /\ UNCHANGED <<u_in, segvars, batchvars, filtervars, appvars>>

NextCrop == CropCall

SpecCrop == InitCrop /\ [][NextCrop]_vars

(***************************************************************************)
(* CharacterSorter (character_sorter.py): the files it moves, its metadata *)
(* and its undo history.  A path is a folder and a file name; a file name  *)
(* is its stem followed by the counters a name collision appended to it    *)
(* (<<"c1", 1>> is c1_1.png).                                              *)
(***************************************************************************)
Categories == {"Bo", "Gau", "Others", "Discarded"}

FilePath(folder, name) == [folder |-> folder, name |-> name]

\* shutil.move(src, dst): the file at src is now at dst; a file that was at
\* dst is replaced.
Move(disk, src, dst) ==
  [q \in (DOMAIN disk \ {src}) \cup {dst} |-> IF q = dst THEN disk[src] ELSE disk[q]]

\* A plausible slip: the destination name is taken as it is.
DestPathNoCounter(disk, folder, name) == FilePath(folder, name)

\* The while loop of lines 118-120: the first of stem_1, stem_2, ... that is
\* not a file of the folder.
RECURSIVE FirstUnused(_, _, _, _)
FirstUnused(disk, folder, name, counter) ==
  IF FilePath(folder, Append(name, counter)) \in DOMAIN disk
  THEN FirstUnused(disk, folder, name, counter + 1)
  ELSE FilePath(folder, Append(name, counter))

\* dest_path of move_image (lines 111-120).
DestPath(disk, folder, name) ==
  IF FilePath(folder, name) \in DOMAIN disk
  THEN FirstUnused(disk, folder, name, 1)
  ELSE FilePath(folder, name)

\* folder_map of sort_image (lines 181-186).
SorterFolder(category) ==
  IF category = "Discarded" THEN ".discarded" ELSE category

CropsDir == "character_crops"

\* The crops of crops_dir, in sorted order.
MaxCrops == 2
CropStems == <<"c1", "c2", "c3">>
CropsInOrder == [i \in 1..MaxCrops |-> FilePath(CropsDir, <<CropStems[i]>>)]

\* sorted(...) of a set of crops (line 100).
SortedCrops(S) == SelectSeq(CropsInOrder, LAMBDA q : q \in S)

ZeroStats == [c \in Categories |-> 0]

NoEntries == [q \in {} |-> q]

\* load_metadata (lines 62-67) and load_stats (lines 74-78).
NoSorterFile == [exists |-> FALSE, sorted_images |-> NoEntries, session_stats |-> ZeroStats]

\* get_unsorted_images (lines 85-100).
get_unsorted_images(disk, sorted_images) ==
  SortedCrops({q \in DOMAIN disk : q.folder = CropsDir /\ q \notin DOMAIN sorted_images})

\* The image_label after show_current_image (lines 297-334): the image at
\* current_index, or the completion message.
NoImage == FilePath("", <<>>)

Shown(image_files, current_index) ==
  IF current_index >= Len(image_files) THEN NoImage ELSE image_files[current_index + 1]

\* What the undo of the next step would have to bring back.
SorterSnapshot(s) ==
  [disk |-> s.disk, sorted_images |-> s.sorted_images, stats |-> s.stats,
   image_files |-> s.image_files, current_index |-> s.current_index,
   displayed |-> s.displayed]

\* A plausible slip: the counters of an earlier session are not taken over.
load_statsSkipped(file) == ZeroStats

\* load_stats (lines 74-78) over the zeros of lines 47-52.
load_stats(file) ==
  [category \in Categories |->
     IF category \in DOMAIN file.session_stats
     THEN file.session_stats[category] ELSE 0]

\* CharacterSorter(...) and run() (lines 13-60, 382-411) in a new process over
\* the files and the metadata file that are there.
SorterStarted(disk, file) ==
  [on |-> TRUE,
   disk |-> disk,
   file |-> file,
   sorted_images |-> file.sorted_images,
   stats |-> load_stats(file),
   image_files |-> get_unsorted_images(disk, file.sorted_images),
   current_index |-> 0,
   history |-> <<>>,
   displayed |-> Shown(get_unsorted_images(disk, file.sorted_images), 0),
   op |-> "start",
   before |-> <<>>]

\* list.insert(index, item).
Insert(list, index, item) ==
  SubSeq(list, 1, index) \o <<item>> \o SubSeq(list, index + 1, Len(list))

\* move_image (lines 102-136) for the image at current_index, then lines
\* 193-204 of sort_image.
Sorted(s, category) ==
  LET image_path == s.image_files[s.current_index + 1]
      dest_path == DestPath(s.disk, SorterFolder(category), image_path.name)
      entries == (image_path :> [category |-> category, destination |-> dest_path])
                 @@ s.sorted_images
      counted == [s.stats EXCEPT ![category] = @ + 1]
  IN  [s EXCEPT !.disk = Move(s.disk, image_path, dest_path),
                !.sorted_images = entries,
                !.stats = counted,
                !.file = [exists |-> TRUE, sorted_images |-> entries,
                          session_stats |-> counted],
                !.history = Append(s.history, [source |-> image_path,
                                               destination |-> dest_path,
                                               category |-> category]),
                !.current_index = s.current_index + 1,
                !.displayed = Shown(s.image_files, s.current_index + 1),
                !.op = "sort",
                !.before = <<SorterSnapshot(s)>>]

\* sort_image (lines 168-204): nothing past the last image; shutil.move
\* raises when the source file is not there, before anything is recorded.
sort_image(s, category) ==
  IF s.current_index >= Len(s.image_files)
  THEN [s EXCEPT !.op = "sort_none", !.before = <<>>]
  ELSE IF s.image_files[s.current_index + 1] \notin DOMAIN s.disk
       THEN [s EXCEPT !.op = "sort_raised", !.before = <<>>]
       ELSE Sorted(s, category)

\* undo_last_action (lines 138-166) and undo_action (lines 346-353).
undo_last_action(s) ==
  IF s.history = <<>>
  THEN [s EXCEPT !.op = "undo_none", !.before = <<>>]
  ELSE LET last_action == s.history[Len(s.history)]
           source_path == last_action.source
           dest_path == last_action.destination
           popped == SubSeq(s.history, 1, Len(s.history) - 1)
       IN  IF dest_path \in DOMAIN s.disk
           THEN LET entries == [q \in DOMAIN s.sorted_images \ {source_path}
                                  |-> s.sorted_images[q]]
                    counted == [s.stats EXCEPT ![last_action.category] = @ - 1]
                    listed == Insert(s.image_files, s.current_index, source_path)
                IN  [s EXCEPT !.history = popped,
                              !.disk = Move(s.disk, dest_path, source_path),
                              !.sorted_images = entries,
                              !.stats = counted,
                              !.file = [exists |-> TRUE, sorted_images |-> entries,
                                        session_stats |-> counted],
                              !.image_files = listed,
                              !.current_index = s.current_index - 1,
                              !.displayed = Shown(listed, s.current_index - 1),
                              !.op = "undo",
                              !.before = IF s.op = "sort" THEN s.before ELSE <<>>]
           ELSE [s EXCEPT !.history = popped, !.op = "undo_none", !.before = <<>>]

\* Files that were in the Bo folder before the sorter first ran.
OldBo(names) == [q \in {FilePath("Bo", n) : n \in names} |-> <<"old">> \o q.name]

NewCrops == [q \in Range(CropsInOrder) |-> q.name]

SorterDisks ==
  {NewCrops @@ OldBo(names) : names \in {{}, {<<"c1">>}, {<<"c1">>, <<"c1", 1>>}}}

\* The undo list grows by one entry per undone sort.
MaxListLen == 4

\* run() (lines 384-388) opens no window when there is nothing to sort.
SorterWindow == sorter.image_files # <<>> \/ sorter.op # "start"

\* <Left>, <Right>, <Up>, <Down> (lines 287-290).
SortKey ==
  /\ SorterWindow
  /\ \E category \in Categories : sorter' = sort_image(sorter, category)
  /\ UNCHANGED <<segvars, batchvars, filtervars, unitvars, pipeline, toolvars>>

\* <BackSpace> (line 291).
UndoKey ==
  /\ SorterWindow
  /\ Len(sorter.image_files) < MaxListLen
  /\ sorter' = undo_last_action(sorter)
  /\ UNCHANGED <<segvars, batchvars, filtervars, unitvars, pipeline, toolvars>>

\* <Escape> and a new run of the sorter over the same directories.
SorterRestart ==
  /\ sorter.op # "start"
  /\ sorter' = SorterStarted(sorter.disk, sorter.file)
  /\ UNCHANGED <<segvars, batchvars, filtervars, unitvars, pipeline, toolvars>>

InitSorter ==
  /\ RestIdle
  /\ UnitIdle
  /\ \E disk \in SorterDisks : sorter = SorterStarted(disk, NoSorterFile)
  /\ pipeline = NoApp
  /\ ToolsIdle

NextSorter ==
  \/ SortKey
  \/ UndoKey
  \/ SorterRestart

SpecSorter == InitSorter /\ [][NextSorter]_vars

(***************************************************************************)
(* MemeScraper (scraper.py) as the pipeline uses it: the download metadata *)
(* and the files of the download directory.                                *)
(***************************************************************************)
NoFile == FilePath("", <<>>)

DownloadDir == "meme_downloads"

\* new_name of download_meme (lines 200-201).
MemeFile(meme_id) == FilePath(DownloadDir, <<"meme", meme_id>>)

\* What the site does when download_meme accesses it.
SiteOutcomes == {"image", "no_button", "page_timeout", "download_timeout", "exception"}

\* The metadata entry download_meme writes after each outcome (lines 125-245).
SiteEntry(meme_id, site) ==
  CASE site = "image"            -> [status |-> "success", path |-> MemeFile(meme_id)]
    [] site = "no_button"        -> [status |-> "skipped", path |-> NoFile]
    [] site = "page_timeout"     -> [status |-> "skipped", path |-> NoFile]
    [] site = "download_timeout" -> [status |-> "failed", path |-> NoFile]
    [] site = "exception"        -> [status |-> "error", path |-> NoFile]

\* download_meme's return value: a path, 'skipped' or None.
Returned(kind, path) == [kind |-> kind, path |-> path]

\* A plausible slip: the recorded file is not looked for.
ServedFromCacheUnchecked(sc, meme_id, force) ==
  /\ ~force
  /\ meme_id \in DOMAIN sc.metadata
  /\ sc.metadata[meme_id].path # NoFile
  /\ sc.metadata[meme_id].status = "success"

\* The test of lines 95-103: a recorded success whose file is still there.
ServedFromCache(sc, meme_id, force) ==
  /\ ~force
  /\ meme_id \in DOMAIN sc.metadata
  /\ sc.metadata[meme_id].path # NoFile
  /\ sc.metadata[meme_id].status = "success"
  /\ sc.metadata[meme_id].path \in sc.files

\* download_meme (lines 83-245) on the scraper state sc.
download_meme(sc, meme_id, force, site) ==
  LET known == ~force /\ meme_id \in DOMAIN sc.metadata
      entry == sc.metadata[meme_id]
  IN  IF ServedFromCache(sc, meme_id, force)
      THEN [result |-> Returned("path", entry.path), accessed |-> FALSE,
            metadata |-> sc.metadata, files |-> sc.files]
      ELSE IF known /\ ~(entry.path # NoFile /\ entry.status = "success")
              /\ entry.status = "skipped"
           THEN [result |-> Returned("skipped", NoFile), accessed |-> FALSE,
                 metadata |-> sc.metadata, files |-> sc.files]
           ELSE [result |-> IF site = "image"
                            THEN Returned("path", MemeFile(meme_id))
                            ELSE IF SiteEntry(meme_id, site).status = "skipped"
                                 THEN Returned("skipped", NoFile)
                                 ELSE Returned("none", NoFile),
                 accessed |-> TRUE,
                 metadata |-> (meme_id :> SiteEntry(meme_id, site)) @@ sc.metadata,
                 files |-> IF site = "image"
                           THEN sc.files \cup {MemeFile(meme_id)}
                           ELSE sc.files]

\* The loop of download_batch (lines 271-284) from meme_id on; sites gives the
\* site's behaviour for each id.
RECURSIVE BatchLoop(_, _, _, _, _, _)
BatchLoop(sc, meme_id, stop, force, sites, acc) ==
  IF meme_id >= stop
  THEN [results |-> acc.results, success_count |-> acc.success_count,
        skip_count |-> acc.skip_count, fail_count |-> acc.fail_count,
        no_image_count |-> acc.no_image_count,
        metadata |-> sc.metadata, files |-> sc.files]
  ELSE LET d == download_meme(sc, meme_id, force, sites[meme_id])
           after == [metadata |-> d.metadata, files |-> d.files]
           counted ==
             CASE d.result.kind = "skipped" ->
                    [acc EXCEPT !.no_image_count = @ + 1]
               [] d.result.kind = "none" ->
                    [acc EXCEPT !.fail_count = @ + 1]
               [] d.result.kind = "path" ->
                    IF meme_id \in DOMAIN d.metadata /\ ~force
                    THEN [acc EXCEPT !.results = Append(@, meme_id),
                                     !.skip_count = @ + 1]
                    ELSE [acc EXCEPT !.results = Append(@, meme_id),
                                     !.success_count = @ + 1]
       IN  BatchLoop(after, meme_id + 1, stop, force, sites, counted)

\* download_batch (lines 247-300); results lists the ids of the returned
\* dict in insertion order.
download_batch(sc, start_id, count, force, sites) ==
  BatchLoop(sc, start_id, start_id + count, force, sites,
            [results |-> <<>>, success_count |-> 0, skip_count |-> 0,
             fail_count |-> 0, no_image_count |-> 0])

\* get_skipped_memes (lines 344-349).
get_skipped_memes(downloads) ==
  {meme_id \in DOMAIN downloads : downloads[meme_id].status = "skipped"}

(***************************************************************************)
(* MemeScraper used on its own: single downloads and batches over a        *)
(* download directory whose files the user may delete.                     *)
(***************************************************************************)
\* The ids a call can name, and the count a batch can ask for.
MaxIds == 2
MemeIds == 0..(MaxIds - 1)

NoSummary ==
  [results |-> <<>>, success_count |-> 0, skip_count |-> 0, fail_count |-> 0,
   no_image_count |-> 0]

NoCall == [start_id |-> 0, count |-> 0, force |-> FALSE, sites |-> <<>>]

\* MemeScraper(download_dir) (lines 17-33) over an empty download directory.
ScraperStarted ==
  [on |-> TRUE,
   metadata |-> NoEntries,
   files |-> {},
   op |-> "start",
   call |-> NoCall,
   had_success |-> FALSE,
   result |-> Returned("none", NoFile),
   accessed |-> FALSE,
   summary |-> NoSummary]

\* download_meme(meme_id, force) called on its own.
DownloadMemeCall ==
  /\ \E meme_id \in MemeIds, force \in BOOLEAN, site \in SiteOutcomes :
        LET sc == [metadata |-> scraper.metadata, files |-> scraper.files]
            d == download_meme(sc, meme_id, force, site)
        IN  scraper' = [scraper EXCEPT
                          !.metadata = d.metadata,
                          !.files = d.files,
                          !.op = "download_meme",
                          !.call = [start_id |-> meme_id, count |-> 1, force |-> force,
                                    sites |-> (meme_id :> site)],
                          !.had_success = /\ meme_id \in DOMAIN sc.metadata
                                     /\ sc.metadata[meme_id].status = "success",
                          !.result = d.result,
                          !.accessed = d.accessed,
                          !.summary = NoSummary]
  /\ UNCHANGED <<segvars, batchvars, filtervars, unitvars, sorter, pipeline, captioner>>

\* download_batch(start_id, count, force=...) called on its own.
DownloadBatchCall ==
  /\ \E start_id \in MemeIds, force \in BOOLEAN :
     \E count \in 0..(MaxIds - start_id) :
     \E sites \in [start_id..(start_id + count - 1) -> SiteOutcomes] :
        LET sc == [metadata |-> scraper.metadata, files |-> scraper.files]
            b == download_batch(sc, start_id, count, force, sites)
        IN  scraper' = [scraper EXCEPT
                          !.metadata = b.metadata,
                          !.files = b.files,
                          !.op = "download_batch",
                          !.call = [start_id |-> start_id, count |-> count,
                                    force |-> force, sites |-> sites],
                          !.had_success = FALSE,
                          !.result = Returned("none", NoFile),
                          !.accessed = FALSE,
                          !.summary = [results |-> b.results,
                                       success_count |-> b.success_count,
                                       skip_count |-> b.skip_count,
                                       fail_count |-> b.fail_count,
                                       no_image_count |-> b.no_image_count]]
  /\ UNCHANGED <<segvars, batchvars, filtervars, unitvars, sorter, pipeline, captioner>>

\* The user removes a downloaded image; the metadata entry stays (what the
\* existence test of lines 101-102 is for).
DeleteDownload ==
  /\ \E gone \in scraper.files :
        scraper' = [scraper EXCEPT !.files = @ \ {gone}, !.op = "delete"]
  /\ UNCHANGED <<segvars, batchvars, filtervars, unitvars, sorter, pipeline, captioner>>

InitScraper ==
  /\ RestIdle
  /\ UnitIdle
  /\ sorter = NoApp
  /\ pipeline = NoApp
  /\ captioner = NoApp
  /\ scraper = ScraperStarted

\* Single downloads.
NextScraper ==
  \/ DownloadMemeCall
  \/ DeleteDownload

SpecScraper == InitScraper /\ [][NextScraper]_vars

\* Single downloads and batches.
NextScraperBatch ==
  \/ DownloadMemeCall
  \/ DownloadBatchCall
  \/ DeleteDownload

SpecScraperBatch == InitScraper /\ [][NextScraperBatch]_vars

(***************************************************************************)
(* UnifiedPipeline (unified_pipeline.py): the window, its worker threads,  *)
(* the sorting metadata and the files of the sorted directory.             *)
(***************************************************************************)
StatKeys ==
  Categories \cup {"memes_processed", "memes_downloaded", "memes_skipped", "total_characters"}

PipelineStats == [k \in StatKeys |-> 0]

\* The worker threads start_pipeline can have spawned at one time.
MaxWorkers == 2

\* The count field of the form; start_id is left at its default.
MaxMemes == 2
StartId == 0

\* A thread that is not running, and one that start_pipeline just spawned.
NoWorker == [pc |-> "none", downloaded |-> <<>>, segmented |-> <<>>, stopped |-> FALSE]
Spawned == [pc |-> "download", downloaded |-> <<>>, segmented |-> <<>>, stopped |-> FALSE]

\* sorting_metadata.json as it is when the pipeline opens: absent, or left by
\* a CharacterSorter that sorted c1.png into Bo in the same sorted directory.
SorterLeft == Sorted(SorterStarted(NewCrops, NoSorterFile), "Bo")

PipelineFiles ==
  { [exists |-> FALSE, sorted_images |-> NoEntries, session_stats |-> PipelineStats,
     disk |-> NoEntries],
    [exists |-> TRUE, sorted_images |-> SorterLeft.file.sorted_images,
     session_stats |-> SorterLeft.file.session_stats,
     disk |-> [q \in {r \in DOMAIN SorterLeft.disk : r.folder # CropsDir}
                 |-> SorterLeft.disk[q]]] }

\* UnifiedPipeline() and create_ui (lines 21-133).
PipelineOpened(found) ==
  [on |-> TRUE,
   is_running |-> FALSE,
   start_button |-> "normal",
   count |-> 0,
   workers |-> [w \in 1..MaxWorkers |-> NoWorker],
   scraper |-> [metadata |-> NoEntries, files |-> {}],
   stats |-> PipelineStats,
   metadata |-> NoEntries,
   file |-> [exists |-> found.exists, sorted_images |-> found.sorted_images,
             session_stats |-> found.session_stats],
   disk |-> found.disk,
   images_to_sort |-> <<>>,
   current_index |-> 0,
   current_image_path |-> NoFile,
   displayed |-> NoFile,
   history |-> <<>>,
   pending |-> 0,
   op |-> "open"]

\* A plausible slip: the counters of the file are not taken over.
LoadedStatsIgnored(stats, file) == stats

\* The loop of load_metadata (lines 584-586).
LoadedStats(stats, file) ==
  [k \in StatKeys |-> IF k \in DOMAIN file.session_stats
                      THEN file.session_stats[k] ELSE stats[k]]

\* setup_directories and load_metadata (lines 560-586).
setup_directories(p) ==
  IF p.file.exists
  THEN [p EXCEPT !.metadata = p.file.sorted_images,
                 !.stats = LoadedStats(p.stats, p.file)]
  ELSE p

\* save_metadata (lines 588-592).
save_metadata(p, entries) ==
  [exists |-> TRUE, sorted_images |-> entries, session_stats |-> p.stats]

\* show_completion (lines 865-900).
show_completion(p) ==
  [p EXCEPT !.is_running = FALSE, !.start_button = "normal", !.displayed = NoFile]

\* show_next_character (lines 731-764).
show_next_character(p) ==
  IF ~p.is_running
  THEN p
  ELSE IF p.current_index >= Len(p.images_to_sort)
       THEN show_completion(p)
       ELSE LET path == p.images_to_sort[p.current_index + 1]
            IN  IF path \in DOMAIN p.disk
                THEN [p EXCEPT !.current_image_path = path, !.displayed = path]
                ELSE [p EXCEPT !.current_image_path = path,
                               !.current_index = @ + 1,
                               !.pending = @ + 1]

\* sort_character (lines 766-831).
sort_character(p, category) ==
  LET path == p.current_image_path
  IN  IF path = NoFile \/ path \notin DOMAIN p.disk
      THEN [p EXCEPT !.op = "sort_none"]
      ELSE IF category = "Discarded"
           THEN LET entries == (path :> [category |-> "Discarded", original_path |-> path])
                               @@ p.metadata
                IN  [p EXCEPT !.metadata = entries,
                              !.file = save_metadata(p, entries),
                              !.stats = [@ EXCEPT !["Discarded"] = @ + 1],
                              !.history = Append(@, [source |-> path, destination |-> path,
                                                     category |-> category,
                                                     action |-> "keep"]),
                              !.current_index = @ + 1,
                              !.pending = @ + 1,
                              !.op = "sort"]
           ELSE LET dest_path == DestPath(p.disk, category, path.name)
                    entries == (dest_path :> [category |-> category, original_path |-> path])
                               @@ p.metadata
                IN  [p EXCEPT !.disk = Move(p.disk, path, dest_path),
                              !.metadata = entries,
                              !.file = save_metadata(p, entries),
                              !.stats = [@ EXCEPT ![category] = @ + 1],
                              !.history = Append(@, [source |-> path,
                                                     destination |-> dest_path,
                                                     category |-> category,
                                                     action |-> "move"]),
                              !.current_index = @ + 1,
                              !.pending = @ + 1,
                              !.op = "sort"]

\* undo_action (lines 833-863).
undo_action(p) ==
  IF p.history = <<>>
  THEN [p EXCEPT !.op = "undo_none"]
  ELSE LET last == p.history[Len(p.history)]
           key == IF last.action = "move" THEN last.destination ELSE last.source
           moved == IF last.action = "move" /\ last.destination \in DOMAIN p.disk
                    THEN Move(p.disk, last.destination, last.source)
                    ELSE p.disk
           entries == [q \in DOMAIN p.metadata \ {key} |-> p.metadata[q]]
           saved == IF key \in DOMAIN p.metadata
                    THEN save_metadata(p, entries)
                    ELSE p.file
       IN  show_next_character(
             [p EXCEPT !.history = SubSeq(@, 1, Len(@) - 1),
                       !.disk = moved,
                       !.metadata = entries,
                       !.file = saved,
                       !.stats = [@ EXCEPT ![last.category] = @ - 1],
                       !.current_index = max(0, @ - 1),
                       !.op = "undo"])

\* The start button (lines 443-457) and start_pipeline (lines 594-619).  A
\* disabled button does not call its command; count is the count field.
StartClick ==
  /\ pipeline.start_button = "normal"
  /\ \E count \in 0..MaxMemes :
        IF pipeline.is_running
        THEN pipeline' = [pipeline EXCEPT !.op = "start_rejected"]
        ELSE IF count <= 0
             THEN pipeline' = [pipeline EXCEPT !.op = "start_invalid"]
             ELSE \E w \in 1..MaxWorkers :
                     /\ pipeline.workers[w].pc = "none"
                     /\ \A v \in 1..(w - 1) : pipeline.workers[v].pc # "none"
                     /\ pipeline' = [setup_directories(pipeline) EXCEPT
                                        !.is_running = TRUE,
                                        !.start_button = "disabled",
                                        !.count = count,
                                        !.workers[w] = Spawned,
                                        !.op = "start"]
  /\ UNCHANGED <<segvars, batchvars, filtervars, unitvars, sorter, toolvars>>

\* <Escape> (line 133) and stop_pipeline (lines 902-907); the user answers the
\* question with yes or no.
StopAnswered(p, yes) ==
  IF yes
  THEN [p EXCEPT !.is_running = FALSE,
                 !.start_button = "normal",
                 !.workers = [w \in 1..MaxWorkers |->
                                IF p.workers[w].pc = "none" THEN p.workers[w]
                                ELSE [p.workers[w] EXCEPT !.stopped = TRUE]]]
  ELSE p

EscapeKey ==
  /\ \E yes \in BOOLEAN :
        pipeline' = [StopAnswered(pipeline, yes) EXCEPT !.op = "stop"]
  /\ UNCHANGED <<segvars, batchvars, filtervars, unitvars, sorter, toolvars>>

\* <Left>, <Right>, <Up>, <Down> (lines 128-131).
ArrowKey ==
  /\ pipeline.is_running
  /\ \E category \in Categories : pipeline' = sort_character(pipeline, category)
  /\ UNCHANGED <<segvars, batchvars, filtervars, unitvars, sorter, toolvars>>

\* <BackSpace> (line 132).
BackSpaceKey ==
  /\ pipeline.is_running
  /\ pipeline' = undo_action(pipeline)
  /\ UNCHANGED <<segvars, batchvars, filtervars, unitvars, sorter, toolvars>>

\* What the site does for the ids of one batch.
PipelineSites == {"image", "no_button", "download_timeout"}

\* run_pipeline, phase 1 (lines 623-651): the scraper is made, the batch is
\* downloaded; with nothing downloaded the run completes.  webdriver.Edge can
\* fail to start, which raises out of MemeScraper().
Download(w) ==
  /\ pipeline.workers[w].pc = "download"
  /\ \/ pipeline' = [pipeline EXCEPT !.workers[w].pc = "error", !.op = "download_raised"]
     \/ \E sites \in [StartId..(StartId + pipeline.count - 1) -> PipelineSites] :
           LET b == download_batch(pipeline.scraper, StartId, pipeline.count, FALSE, sites)
               counted == [pipeline EXCEPT
                             !.scraper = [metadata |-> b.metadata, files |-> b.files],
                             !.stats = [@ EXCEPT
                                !["memes_downloaded"] = Len(b.results),
                                !["memes_skipped"] =
                                   Cardinality(get_skipped_memes(b.metadata))],
                             !.op = "download"]
           IN  IF b.results = <<>>
               THEN pipeline' = [show_completion(counted) EXCEPT !.workers[w] = NoWorker]
               ELSE pipeline' = [counted EXCEPT !.workers[w].pc = "construct",
                                                !.workers[w].downloaded = b.results]
  /\ UNCHANGED <<segvars, batchvars, filtervars, unitvars, sorter, toolvars>>

\* run_pipeline, lines 653-659: CharacterSegmenter(output_dir=..., hf_token=...).
\* CharacterSegmenter.__init__ (character_segment.py, lines 13-18) takes
\* output_dir, model_name and device only, so the call raises TypeError
\* before __init__ runs; lines 661-701 are never reached.
ConstructSegmenter(w) ==
  /\ pipeline.workers[w].pc = "construct"
  /\ pipeline' = [pipeline EXCEPT !.workers[w].pc = "error", !.op = "construct_raised"]
  /\ UNCHANGED <<segvars, batchvars, filtervars, unitvars, sorter, toolvars>>

\* The except clause of run_pipeline (lines 703-707): the error box, then
\* stop_pipeline's question, then the thread ends.
ErrorAnswered(w) ==
  /\ pipeline.workers[w].pc = "error"
  /\ \E yes \in BOOLEAN :
        pipeline' = [StopAnswered(pipeline, yes) EXCEPT !.workers[w] = NoWorker,
                                                        !.op = "run_failed"]
  /\ UNCHANGED <<segvars, batchvars, filtervars, unitvars, sorter, toolvars>>

InitPipeline ==
  /\ RestIdle
  /\ UnitIdle
  /\ sorter = NoApp
  /\ ToolsIdle
  /\ \E found \in PipelineFiles : pipeline = PipelineOpened(found)

NextPipeline ==
  \/ StartClick
  \/ EscapeKey
  \/ ArrowKey
  \/ BackSpaceKey
  \/ \E w \in 1..MaxWorkers : Download(w)
  \/ \E w \in 1..MaxWorkers : ConstructSegmenter(w)
  \/ \E w \in 1..MaxWorkers : ErrorAnswered(w)

SpecPipeline == InitPipeline /\ [][NextPipeline]_vars

\* A started thread runs run_pipeline to its end, and the dialogs it opens
\* (lines 706-707) are answered; when the user presses a key or a button is
\* up to the user.
PipelineFairness ==
  \A w \in 1..MaxWorkers :
     /\ WF_vars(Download(w))
     /\ WF_vars(ConstructSegmenter(w))
     /\ WF_vars(ErrorAnswered(w))

SpecPipelineLive == InitPipeline /\ [][NextPipeline]_vars /\ PipelineFairness

(***************************************************************************)
(* ImageCaptioner (image_captioner.py) over one directory of .png images.  *)
(* A text is a sequence of characters; a caption file is its content.  The *)
(* tagging model gives each image one probability per tag, the same in     *)
(* every run.                                                               *)
(***************************************************************************)
\* threshold (line 28), in hundredths.
ThresholdPercent == 35

\* selected_tags.csv: names and categories (0 general, 4 character).
SelectedTags ==
  << [name |-> <<"a">>, category |-> 0],
     [name |-> <<"b", "_", "c">>, category |-> 0],
     [name |-> <<"k">>, category |-> 4] >>

\* The images of the directory, by name.
MaxImages == 2
CaptionImages ==
  LET stems == <<"p1", "p2", "p3">>
  IN  {stems[i] : i \in 1..MaxImages}

\* The probabilities the model gives an image, in hundredths, by tag index.
ProbVectors == {<<90, 40, 90>>, <<35, 90, 10>>, <<34, 10, 90>>, <<10, 10, 10>>}

\* An image: one that cannot be opened, or one with its probabilities.
ImageKinds ==
  [decodes : {FALSE}, probs : {<<0, 0, 0>>}] \cup [decodes : {TRUE}, probs : ProbVectors]

\* str.replace(old, new) for single characters.
Replace(str, old, new) ==
  [i \in 1..Len(str) |-> IF str[i] = old THEN new ELSE str[i]]

\* ", ".join(tags).
RECURSIVE Join(_)
Join(tags) ==
  IF tags = <<>> THEN <<>>
  ELSE IF Len(tags) = 1 THEN tags[1]
  ELSE tags[1] \o <<",", " ">> \o Join(Tail(tags))

\* str.split(sep).
RECURSIVE Split(_, _)
Split(str, sep) ==
  IF \A i \in 1..Len(str) : str[i] # sep
  THEN <<str>>
  ELSE LET i == CHOOSE k \in 1..Len(str) :
                  str[k] = sep /\ \A j \in 1..(k - 1) : str[j] # sep
       IN  <<SubSeq(str, 1, i - 1)>> \o Split(SubSeq(str, i + 1, Len(str)), sep)

\* str.strip() where the only whitespace is the blank.
RECURSIVE Strip(_)
Strip(str) ==
  IF str = <<>> THEN <<>>
  ELSE IF str[1] = " " THEN Strip(Tail(str))
  ELSE IF str[Len(str)] = " " THEN Strip(SubSeq(str, 1, Len(str) - 1))
  ELSE str

\* save_caption_file (lines 129-133): the content written.
save_caption_file(tags) == Join(tags)

\* load_caption_file (lines 135-144) on the content of a readable file.
load_caption_file(text) ==
  LET content == Strip(text)
  IN  IF content # <<>>
      THEN LET parts == Split(content, ",")
           IN  [k \in 1..Len(parts) |-> Strip(parts[k])]
      ELSE <<>>

\* caption_single_image (lines 78-127): the tag names returned in order,
\* whether the model was invoked, and the caption file written if any.
caption_single_image(image, save_txt) ==
  IF ~image.decodes
  THEN [tags |-> <<>>, invoked |-> 0, writes |-> FALSE, text |-> <<>>]
  ELSE LET idxs == [i \in 1..Len(image.probs) |-> i]
           kept == SelectSeq(idxs, LAMBDA idx :
                      /\ image.probs[idx] >= ThresholdPercent
                      /\ idx <= Len(SelectedTags)
                      /\ SelectedTags[idx].category = 0)
           tags == [k \in 1..Len(kept) |->
                      [name |-> Replace(SelectedTags[kept[k]].name, "_", " "),
                       score |-> image.probs[kept[k]]]]
           sorted_tags == SortByScore(tags)
           names == [k \in 1..Len(sorted_tags) |-> sorted_tags[k].name]
       IN  [tags |-> names, invoked |-> 1,
            writes |-> save_txt /\ sorted_tags # <<>>,
            text |-> save_caption_file(names)]

\* caption_batch (lines 146-185) over the images and caption files of the
\* directory: the results, the caption files afterwards and the number of
\* model invocations.
caption_batch(images, txt) ==
  LET fresh == [img \in DOMAIN images \ DOMAIN txt |->
                  caption_single_image(images[img], TRUE)]
      written == {img \in DOMAIN fresh : fresh[img].writes}
  IN  [results |-> [img \in DOMAIN images |->
                      IF img \in DOMAIN txt
                      THEN load_caption_file(txt[img])
                      ELSE fresh[img].tags],
       txt |-> [img \in DOMAIN txt \cup written |->
                  IF img \in DOMAIN txt THEN txt[img] ELSE fresh[img].text],
       invoked |-> Cardinality({img \in DOMAIN fresh : fresh[img].invoked = 1})]

\* remove_tag_from_all (lines 203-233): the caption files afterwards.
remove_tag_from_all(tag_to_remove, txt) ==
  [img \in DOMAIN txt |->
     LET tags == load_caption_file(txt[img])
     IN  IF \E k \in 1..Len(tags) : tags[k] = tag_to_remove
         THEN Join(SelectSeq(tags, LAMBDA t : t # tag_to_remove))
         ELSE txt[img]]

\* ImageCaptioner() over a directory that holds images and no caption file.
CaptionerStarted(images) ==
  [on |-> TRUE,
   images |-> images,
   txt |-> NoEntries,
   op |-> "start",
   results |-> NoEntries,
   invoked |-> 0,
   repeated |-> FALSE,
   previous |-> NoEntries]

\* caption_batch(image_dir).  repeated: the call follows another
\* caption_batch with nothing done to the directory in between; previous is
\* what that one returned.
CaptionBatchCall ==
  /\ LET b == caption_batch(captioner.images, captioner.txt)
     IN  captioner' = [captioner EXCEPT
                         !.txt = b.txt,
                         !.op = "caption_batch",
                         !.results = b.results,
                         !.invoked = b.invoked,
                         !.repeated = (captioner.op = "caption_batch"),
                         !.previous = IF captioner.op = "caption_batch"
                                      THEN captioner.results ELSE NoEntries]
  /\ UNCHANGED <<segvars, batchvars, filtervars, unitvars, sorter, pipeline, scraper>>

\* caption_single_image(image_path, save_txt).
CaptionSingleCall ==
  /\ \E img \in DOMAIN captioner.images, save_txt \in BOOLEAN :
        LET r == caption_single_image(captioner.images[img], save_txt)
        IN  captioner' = [captioner EXCEPT
                            !.txt = IF r.writes THEN (img :> r.text) @@ @ ELSE @,
                            !.op = "caption_single_image",
                            !.results = (img :> r.tags),
                            !.invoked = r.invoked,
                            !.repeated = FALSE,
                            !.previous = NoEntries]
  /\ UNCHANGED <<segvars, batchvars, filtervars, unitvars, sorter, pipeline, scraper>>

\* remove_tag_from_all(tag, image_dir).
RemoveTagCall ==
  /\ \E k \in 1..Len(SelectedTags) :
        captioner' = [captioner EXCEPT
                        !.txt = remove_tag_from_all(Replace(SelectedTags[k].name, "_", " "), @),
                        !.op = "remove_tag_from_all",
                        !.results = NoEntries,
                        !.invoked = 0,
                        !.repeated = FALSE,
                        !.previous = NoEntries]
  /\ UNCHANGED <<segvars, batchvars, filtervars, unitvars, sorter, pipeline, scraper>>

InitCaptioner ==
  /\ RestIdle
  /\ UnitIdle
  /\ sorter = NoApp
  /\ pipeline = NoApp
  /\ scraper = NoApp
  /\ \E images \in [CaptionImages -> ImageKinds] : captioner = CaptionerStarted(images)

NextCaptioner ==
  \/ CaptionBatchCall
  \/ CaptionSingleCall
  \/ RemoveTagCall

SpecCaptioner == InitCaptioner /\ [][NextCaptioner]_vars

(***************************************************************************)
(* Properties of filter_masks.                                             *)
(***************************************************************************)
Done == f_pc = "done"

MaskArea(c) == Cardinality(c.mask)

\* 0.005 * image_area < area < 0.85 * image_area.
InsideAreaBounds(c) ==
  /\ 5 * image_area < 1000 * MaskArea(c)
  /\ 100 * MaskArea(c) < 85 * image_area

InOutput(c) == \E k \in 1..Len(filtered) : filtered[k] = c

\* IoU of two candidates' masks is greater than 0.7.
Overlap(c, d) ==
  10 * Cardinality(c.mask \cap d.mask) > 7 * Cardinality(c.mask \cup d.mask)

\* The area-valid candidates in the order of the sorted list.
ValidSorted == SelectSeq(masks_with_scores, InsideAreaBounds)

\* The entries of V at the indices in S, in order.
RECURSIVE Restrict(_, _, _)
Restrict(V, S, i) ==
  IF i > Len(V) THEN <<>>
  ELSE (IF i \in S THEN <<V[i]>> ELSE <<>>) \o Restrict(V, S, i + 1)

\* The indices among 1..i that greedy suppression accepts, stopping at cap.
RECURSIVE GreedyAccepted(_, _, _)
GreedyAccepted(V, i, cap) ==
  IF i = 0 THEN {}
  ELSE LET before == GreedyAccepted(V, i - 1, cap)
       IN  IF Cardinality(before) < cap /\ \A j \in before : ~Overlap(V[i], V[j])
           THEN before \cup {i}
           ELSE before

\* C7: every candidate returned has 0.005*image_area < area < 0.85*image_area;
\* an input candidate with area <= 0.005*image_area or >= 0.85*image_area is
\* not in the output; if every input candidate is such, the output is empty.
AreaFilterCorrect ==
  Done =>
    /\ \A k \in 1..Len(filtered) : InsideAreaBounds(filtered[k])
    /\ \A i \in 1..Len(f_in) :
          (\/ 1000 * MaskArea(f_in[i]) <= 5 * image_area
           \/ 100 * MaskArea(f_in[i]) >= 85 * image_area) => ~InOutput(f_in[i])
    /\ (\A i \in 1..Len(f_in) : ~InsideAreaBounds(f_in[i])) => filtered = <<>>

\* C7: the input held a mask exactly on the lower bound, one exactly on the
\* upper bound and a valid one, and only the valid one was returned.
AreaBoundariesReached ==
  /\ Done
  /\ \E i \in 1..Len(f_in) : 1000 * MaskArea(f_in[i]) = 5 * image_area
  /\ \E i \in 1..Len(f_in) : 100 * MaskArea(f_in[i]) = 85 * image_area
  /\ Len(filtered) = 1

\* C8: the output is the sorted area-valid list restricted to the candidates
\* that greedy suppression accepts (IoU at most 0.7 with every candidate
\* accepted before, until 15 are accepted), and no two output candidates have
\* IoU greater than 0.7.
GreedySuppression ==
  Done =>
    /\ filtered = Restrict(ValidSorted,
                           GreedyAccepted(ValidSorted, Len(ValidSorted), 15), 1)
    /\ \A a, b \in 1..Len(filtered) : a # b => ~Overlap(filtered[a], filtered[b])

\* C8: of three valid candidates one was rejected for an IoU above 0.7 and one
\* was accepted with an IoU of exactly 0.7 with an accepted candidate.
SuppressionReached ==
  /\ Done
  /\ Len(ValidSorted) = 3
  /\ Len(filtered) = 2
  /\ 10 * Cardinality(filtered[1].mask \cap filtered[2].mask)
        = 7 * Cardinality(filtered[1].mask \cup filtered[2].mask)
  /\ \E i \in 1..3 : Overlap(ValidSorted[i], filtered[1]) /\ ~InOutput(ValidSorted[i])

\* C9: the output has at most 15 candidates and is the first 15 (or all, if
\* fewer) of the candidates that pass the area and overlap checks without a cap.
HardCap ==
  Done =>
    LET passing == Restrict(ValidSorted,
                            GreedyAccepted(ValidSorted, Len(ValidSorted),
                                           Len(ValidSorted) + 1), 1)
    IN  /\ Len(filtered) <= 15
        /\ filtered = SubSeq(passing, 1, IF Len(passing) < 15 THEN Len(passing) ELSE 15)

\* C9: 20 pairwise disjoint, equally scored, area-valid candidates gave 15.
CapReachedOnTwenty ==
  /\ Done
  /\ Len(f_in) = 20
  /\ \A i, j \in 1..20 : f_in[i].score = f_in[j].score
  /\ \A i, j \in 1..20 : i # j => f_in[i].mask \cap f_in[j].mask = {}
  /\ Len(ValidSorted) = 20
  /\ Len(filtered) = 15

\* C10: of two area-valid input candidates with IoU above 0.7 and different
\* scores the lower-scored is not returned when the higher-scored is; when
\* they are the whole input only the higher-scored is returned; and the first
\* output candidate has the highest score of all area-valid candidates, so a
\* single highest-scored area-valid candidate is always returned.
HigherScoreKept ==
  Done =>
    /\ \A i, j \in 1..Len(f_in) :
          (/\ InsideAreaBounds(f_in[i]) /\ InsideAreaBounds(f_in[j])
           /\ Overlap(f_in[i], f_in[j])
           /\ f_in[i].score > f_in[j].score)
          => /\ InOutput(f_in[i]) => ~InOutput(f_in[j])
             /\ Len(f_in) = 2 => filtered = <<f_in[i]>>
    /\ \A i \in 1..Len(f_in) :
          InsideAreaBounds(f_in[i])
          => /\ filtered # <<>>
             /\ filtered[1].score >= f_in[i].score
             /\ (\A j \in 1..Len(f_in) :
                    (j # i /\ InsideAreaBounds(f_in[j])) => f_in[j].score < f_in[i].score)
                => filtered[1] = f_in[i]

\* C10: the input was a lower-scored candidate followed by a higher-scored one
\* with IoU above 0.7, and only the higher-scored one was returned.
HigherScoreReached ==
  /\ Done
  /\ Len(f_in) = 2
  /\ InsideAreaBounds(f_in[1]) /\ InsideAreaBounds(f_in[2])
  /\ Overlap(f_in[1], f_in[2])
  /\ f_in[1].score < f_in[2].score
  /\ filtered = <<f_in[2]>>

\* How many times candidate c occurs in list s.
Occurrences(s, c) == Cardinality({k \in 1..Len(s) : s[k] = c})

\* List a can be obtained from list b by deleting entries.
RECURSIVE IsSubSeq(_, _)
IsSubSeq(a, b) ==
  IF a = <<>> THEN TRUE
  ELSE IF b = <<>> THEN FALSE
  ELSE IF Head(a) = Head(b) THEN IsSubSeq(Tail(a), Tail(b))
  ELSE IsSubSeq(a, Tail(b))

\* The entries of list s whose score is v, in order.
WithScore(s, v) == SelectSeq(s, LAMBDA c : c.score = v)

\* C11: every candidate of the output is a candidate of the input, unaltered
\* and no more often than the input holds it, and the output scores never
\* increase from one position to the next.
SubListByScore ==
  Done =>
    /\ \A k \in 1..Len(filtered) :
          /\ \E i \in 1..Len(f_in) : f_in[i] = filtered[k]
          /\ Occurrences(filtered, filtered[k]) <= Occurrences(f_in, filtered[k])
    /\ \A k \in 1..(Len(filtered) - 1) : filtered[k].score >= filtered[k + 1].score

\* C11: an input in ascending score order gave a shorter output in descending
\* score order.
DescendingOutputReached ==
  /\ Done
  /\ Len(f_in) = 3
  /\ f_in[1].score < f_in[3].score
  /\ Len(filtered) = 2
  /\ filtered[1].score > filtered[2].score
  /\ filtered[2] = f_in[1]

\* C12: for every score, the output candidates of that score are, in order, a
\* sub-sequence of the input candidates of that score in the order the oracle
\* returned them.
StableTieOrder ==
  Done =>
    \A k \in 1..Len(filtered) :
       IsSubSeq(WithScore(filtered, filtered[k].score),
                WithScore(f_in, filtered[k].score))

\* C12: two different equally scored candidates, returned by the oracle before
\* a higher-scored one, come out after it in their input order.
TieOrderReached ==
  /\ Done
  /\ Len(f_in) = 3
  /\ f_in[1].score = f_in[2].score
  /\ f_in[1] # f_in[2]
  /\ f_in[3].score > f_in[1].score
  /\ filtered = <<f_in[3], f_in[1], f_in[2]>>

(***************************************************************************)
(* Properties of calculate_iou.                                            *)
(***************************************************************************)
\* C13: IoU(A, A) is 1 for every non-empty A; IoU(A, B) is 0 whenever A and B
\* share no true pixel, also when both are empty (the quotient is then not
\* taken); and IoU(A, B) equals IoU(B, A).
IouLaws ==
  u_pc = "done" =>
    /\ u_in.mask1 # {} => (u_out.aa.den > 0 /\ u_out.aa.num = u_out.aa.den)
    /\ u_in.mask1 \cap u_in.mask2 = {} => (u_out.ab.den > 0 /\ u_out.ab.num = 0)
    /\ u_out.ab.den > 0 /\ u_out.ba.den > 0
    /\ u_out.ab.num * u_out.ba.den = u_out.ba.num * u_out.ab.den

\* C13: calculate_iou was called on two empty masks and returned 0.
EmptyMasksIouReached ==
  /\ u_pc = "done"
  /\ u_in.mask1 = {}
  /\ u_in.mask2 = {}
  /\ u_out.ab.num = 0
  /\ u_out.aa.num = 0

(***************************************************************************)
(* Properties of the crop region.                                          *)
(***************************************************************************)
\* C14: for a bbox (x, y, w, h) on an image of width x height the region
\* cropped is x_min = max(0, x-10), y_min = max(0, y-10),
\* x_max = min(width, x+w+10), y_max = min(height, y+h+10); no bound is
\* negative and none exceeds the image's dimension.
CropClipped ==
  u_pc = "done" =>
    LET x == u_in.bbox[1]
        y == u_in.bbox[2]
        w == u_in.bbox[3]
        h == u_in.bbox[4]
    IN  /\ u_out[1] = (IF x - 10 < 0 THEN 0 ELSE x - 10)
        /\ u_out[2] = (IF y - 10 < 0 THEN 0 ELSE y - 10)
        /\ u_out[3] = (IF x + w + 10 > u_in.width THEN u_in.width ELSE x + w + 10)
        /\ u_out[4] = (IF y + h + 10 > u_in.height THEN u_in.height ELSE y + h + 10)
        /\ \A k \in 1..4 : u_out[k] >= 0
        /\ u_out[1] <= u_in.width /\ u_out[3] <= u_in.width
        /\ u_out[2] <= u_in.height /\ u_out[4] <= u_in.height

\* C14: bbox (0, 0, 10, 10) on a 15x15 image gave the region (0, 0, 15, 15).
CropExampleReached ==
  /\ u_pc = "done"
  /\ u_in = [bbox |-> <<0, 0, 10, 10>>, width |-> 15, height |-> 15]
  /\ u_out = <<0, 0, 15, 15>>

\* C15: a bbox of positive width and positive height gives a region with
\* x_min < x_max and y_min < y_max.
CropNonDegenerate ==
  (u_pc = "done" /\ u_in.bbox[3] > 0 /\ u_in.bbox[4] > 0)
     => (u_out[1] < u_out[3] /\ u_out[2] < u_out[4])

\* C15: a bbox one pixel wide and high next to the far corner of the image,
\* clipped on the right and at the bottom, gave a region of positive size.
CornerCropReached ==
  /\ u_pc = "done"
  /\ u_in.bbox[3] = 1 /\ u_in.bbox[4] = 1
  /\ u_in.bbox[1] + 1 = u_in.width - 1
  /\ u_in.bbox[2] + 1 = u_in.height - 1
  /\ u_out[3] = u_in.width /\ u_out[4] = u_in.height
  /\ u_out[1] < u_out[3] /\ u_out[2] < u_out[4]

(***************************************************************************)
(* Properties of the crops segment_image writes.                           *)
(***************************************************************************)
\* <output_dir>/ID_char_<i as two digits>.png
NamedCrop(id, i) ==
  [parent |-> "character_crops", id |-> id, tag |-> "_char_",
   digits |-> <<i \div 10, i % 10>>, suffix |-> ".png"]

\* C16: the k-th path (from 1) of every ledger record of identifier ID is
\* <output_dir>/ID_char_<k-1 as two digits>.png, so the paths of one record are
\* pairwise distinct and indexed 0..character_count-1 in order; and the crops
\* a call saves are written under those names, in the order of extraction,
\* which is the order of non-increasing score.
CropNaming ==
  /\ \A id \in DOMAIN metadata :
        LET crops == metadata[id].character_crops
        IN  /\ Len(crops) = metadata[id].character_count
            /\ \A k \in 1..Len(crops) : crops[k] = NamedCrop(id, k - 1)
            /\ \A j, k \in 1..Len(crops) : j # k => crops[j] # crops[k]
  /\ op = "segment_image" =>
        /\ \A k \in 1..Len(cropped) :
              /\ cropped[k].output_path = NamedCrop(image_id_of(s_path), k - 1)
              /\ cropped[k].output_path \in files
        /\ \A k \in 1..(Len(cropped) - 1) : cropped[k].score >= cropped[k + 1].score
        /\ outcome = "ok" =>
              ret = [k \in 1..Len(cropped) |-> cropped[k].output_path]

\* C16: a call saved two crops, the higher-scored one as index 00 and the
\* lower-scored one as index 01, and recorded them.
NamedCropsReached ==
  /\ op = "segment_image"
  /\ outcome = "ok"
  /\ Len(cropped) = 2
  /\ cropped[1].score > cropped[2].score
  /\ cropped[1].output_path.digits = <<0, 0>>
  /\ cropped[2].output_path.digits = <<0, 1>>
  /\ metadata[image_id_of(s_path)].character_crops = ret
  /\ metadata[image_id_of(s_path)].character_count = 2

(***************************************************************************)
(* Properties of segment_image against the oracle's answers.               *)
(***************************************************************************)
\* The candidates of scenario sc that pass the confidence thresholds, the
\* area bounds and the overlap suppression: how many there are.
SurvivorsOf(sc) ==
  LET width == sc.size[1]
      height == sc.size[2]
      confident == TextMasks(sc)
                   \o PointMasks(sc, generate_point_grid(width, height, 6), 1, width)
      ordered == SortByScore(confident)
      valid == SelectSeq(ordered,
                 LAMBDA c : /\ 5 * (width * height) < 1000 * Cardinality(c.mask)
                            /\ 100 * Cardinality(c.mask) < 85 * (width * height))
  IN  Cardinality(GreedyAccepted(valid, Len(valid), 15))

SurvivorCount == [sc \in Scenes |-> SurvivorsOf(sc)]

\* C17: when a segment_image call succeeds, the crops it saved, the paths it
\* returns and the character_count it records are each as many as the
\* candidates that survive the confidence thresholds, the area filter and the
\* overlap suppression, and each saved crop is a file of its own.
OneCropPerSurvivor ==
  (op = "segment_image" /\ outcome = "ok") =>
     /\ Len(cropped) = SurvivorCount[scene]
     /\ Len(ret) = SurvivorCount[scene]
     /\ metadata[image_id_of(s_path)].character_count = SurvivorCount[scene]
     /\ Cardinality({cropped[k].output_path : k \in 1..Len(cropped)})
           = SurvivorCount[scene]
     /\ \A k \in 1..Len(cropped) : cropped[k].output_path \in files

\* C17: masks of 50, 5000 and 9500 pixels with scores 0.9, 0.8 and 0.3 on a
\* 100x100 image gave one crop and character_count 1.
ExampleOneCropReached ==
  /\ op = "segment_image"
  /\ outcome = "ok"
  /\ scene = ExampleScene
  /\ Len(cropped) = 1
  /\ Len(ret) = 1
  /\ metadata[image_id_of(s_path)].character_count = 1

\* An oracle call raised during the call that saw scenario sc.
OracleRaised(sc) ==
  sc.text.raises \/ sc.point_fail \in 1..36

\* C18 as stated: when an oracle call raises during a segment_image call, no
\* exception leaves the call and the image yields zero crops.
OracleFailureYieldsNoCrops ==
  (op = "segment_image" /\ oracle_calls > 0 /\ OracleRaised(scene)) =>
     /\ outcome # "raised"
     /\ cropped = <<>>
     /\ ret = <<>>

(***************************************************************************)
(* Properties of a run whose model did not load.                           *)
(***************************************************************************)
\* C19 as stated: with the model not loaded, every segment_image call returns
\* no crop, raises nothing, calls the oracle zero times and writes nothing to
\* the ledger, the ledger file or the output directory.
UnavailableYieldsNothing ==
  [][ (op' = "segment_image" /\ ~model_loaded)
      => /\ ret' = <<>>
         /\ outcome' # "raised"
         /\ oracle_calls' = 0
         /\ metadata' = metadata
         /\ metadata_file' = metadata_file
         /\ files' = files ]_vars

\* C19 amended: with the model not loaded, a segment_image call raises
\* nothing, calls the oracle zero times, saves no crop and leaves the ledger,
\* the ledger file and the output directory as they were; it returns the
\* recorded list when it is not forced and the image has a record whose crops
\* all exist, and the empty list otherwise; a batch goes on to its next image
\* and a batch over a non-empty list does not end in an exception.
UnavailableWritesNothing ==
  /\ [][ (op' = "segment_image" /\ ~model_loaded)
         => /\ outcome' \in {"cached", "no_model"}
            /\ (outcome' = "cached") <=> (~s_force' /\ HasRecord /\ AllCropsExist)
            /\ outcome' = "cached" => ret' = metadata[CalledId].character_crops
            /\ outcome' = "no_model" => ret' = <<>>
            /\ oracle_calls' = 0
            /\ cropped' = <<>>
            /\ metadata' = metadata
            /\ metadata_file' = metadata_file
            /\ files' = files
            /\ b_pc = "running" => (b_pc' = "running" /\ b_i' = b_i + 1)
       ]_vars
  /\ []((~model_loaded /\ b_pc = "raised") => image_paths = <<>>)

\* C19: a batch of two images ran to its end with the model not loaded; both
\* images have an empty list and nothing was written.
UnavailableBatchReached ==
  /\ ~model_loaded
  /\ b_pc = "returned"
  /\ Len(image_paths) = 2
  /\ outcome = "no_model"
  /\ \A k \in 1..2 : results[image_id_of(image_paths[k])] = <<>>
  /\ metadata = EmptyDict
  /\ files = {}

(***************************************************************************)
(* Properties of segment_directory.                                        *)
(***************************************************************************)
\* The sorted order of the file names of the model.
NameRank(path) ==
  CASE path.stem = "m1" -> 1
    [] path.stem = "m2" -> 2
    [] OTHER -> 3

\* C20 as stated: segment_directory hands the image files to segment_batch in
\* sorted order, whatever order the file system enumerates them in.
DirectoryOrderSorted ==
  op = "directory_start" =>
     \A i, j \in 1..Len(image_paths) :
        i < j => NameRank(image_paths[i]) <= NameRank(image_paths[j])

(***************************************************************************)
(* Properties of the batch summary.                                        *)
(***************************************************************************)
\* C21 as stated: a batch over no images (segment_batch on an empty list,
\* segment_directory on a directory without images) ends by returning an
\* empty mapping; reporting the average raises no division by zero.
EmptyInputGuarded ==
  (op \in {"batch_end", "directory_empty"} /\ image_paths = <<>>)
     => (b_pc = "returned" /\ results = EmptyDict)

(***************************************************************************)
(* Properties of the ledger load at construction.                          *)
(***************************************************************************)
\* C23: constructing the segmenter with no ledger file present succeeds with
\* an empty ledger; constructing it over a ledger file that does not parse
\* fails with the parse error, no segmenter with an empty ledger comes out of
\* it, and the ledger file and the crop files are left as they were.
LedgerLoad ==
  [][ op' = "construct" =>
        /\ metadata_file.state = "absent" =>
              (constructed' /\ metadata' = EmptyDict)
        /\ metadata_file.state = "ok" =>
              (constructed' /\ metadata' = metadata_file.data)
        /\ metadata_file.state = "corrupt" => ~constructed'
        /\ metadata_file' = metadata_file
        /\ files' = files ]_vars

\* A construction over a ledger file that does not parse has failed.
CorruptLoadReached ==
  /\ op = "construct"
  /\ metadata_file.state = "corrupt"
  /\ ~constructed

(***************************************************************************)
(* Properties of the sorter's undo.                                        *)
(***************************************************************************)
\* C24 as stated: an undo_action that immediately follows a sort_image brings
\* back the state before the sort: the files, the sorted_images entries, the
\* counters, current_index, the image_files list and the image shown.
SorterUndoRoundTrip ==
  (sorter.op = "undo" /\ sorter.before # <<>>) =>
     /\ sorter.disk = sorter.before[1].disk
     /\ sorter.sorted_images = sorter.before[1].sorted_images
     /\ sorter.stats = sorter.before[1].stats
     /\ sorter.current_index = sorter.before[1].current_index
     /\ sorter.displayed = sorter.before[1].displayed
     /\ sorter.image_files = sorter.before[1].image_files

(***************************************************************************)
(* Properties of the pipeline's worker thread.                             *)
(***************************************************************************)
\* The worker threads that are executing run_pipeline.
ActiveWorkers == {w \in 1..MaxWorkers : pipeline.workers[w].pc # "none"}

\* C27 as stated: run_pipeline goes through download, segment, load and sort
\* in that order: a run that downloaded at least one meme and was not stopped
\* has passed every downloaded meme to segment_image, in download order, when
\* it leaves its phases, and no image is offered for sorting before that.
PipelinePhaseOrder ==
  \A w \in 1..MaxWorkers :
     LET run == pipeline.workers[w]
     IN  /\ (run.pc = "error" /\ run.downloaded # <<>> /\ ~run.stopped)
               => run.segmented = run.downloaded
         /\ (run.pc \in {"download", "construct"} /\ Cardinality(ActiveWorkers) = 1)
               => pipeline.displayed = NoFile

\* C28 as stated: at most one run_pipeline worker thread is executing at any
\* time, whatever the order of start, stop and key events and worker steps.
SingleWorker == Cardinality(ActiveWorkers) <= 1

\* What every run of the pipeline leaves untouched: no meme is passed to
\* segment_image, no image is loaded for sorting or displayed, no sort is
\* recorded and no show_next_character callback is scheduled.
NothingToSort ==
  /\ pipeline.images_to_sort = <<>>
  /\ pipeline.current_image_path = NoFile
  /\ pipeline.displayed = NoFile
  /\ pipeline.history = <<>>
  /\ pipeline.pending = 0
  /\ \A w \in 1..MaxWorkers : pipeline.workers[w].segmented = <<>>

(***************************************************************************)
(* Properties of the file moves of sorting.                                *)
(***************************************************************************)
\* The paths that hold the picture a crop file was created with.
CopiesOf(disk, crop) == {q \in DOMAIN disk : disk[q] = crop.name}

\* The name a sort gave its destination is the image's own name when the
\* folder had no such file, and otherwise the first free one of stem_1,
\* stem_2, ...
FirstFreeName(disk, folder, name, dest_path) ==
  /\ dest_path.folder = folder
  /\ dest_path \notin DOMAIN disk
  /\ IF FilePath(folder, name) \notin DOMAIN disk
     THEN dest_path.name = name
     ELSE \E n \in 1..Cardinality(DOMAIN disk) :
             /\ dest_path.name = Append(name, n)
             /\ \A k \in 1..(n - 1) : FilePath(folder, Append(name, k)) \in DOMAIN disk

\* C26: no step of the sorter loses or overwrites a file; a sort moves the
\* image to its own name in the category folder or, when that name is taken,
\* to the first unused stem_N; and afterwards every sorted image is exactly
\* one file, in the folder of its category, at the destination its metadata
\* entry records.
SortKeepsEveryFile ==
  [][ /\ \A q \in DOMAIN sorter.disk : \E r \in DOMAIN sorter'.disk :
            sorter'.disk[r] = sorter.disk[q]
      /\ Cardinality(DOMAIN sorter'.disk) = Cardinality(DOMAIN sorter.disk)
      /\ sorter'.op = "sort" =>
            LET moved == sorter'.history[Len(sorter'.history)]
            IN  /\ moved.source = sorter.image_files[sorter.current_index + 1]
                /\ FirstFreeName(sorter.disk, SorterFolder(moved.category),
                                 moved.source.name, moved.destination)
                /\ sorter'.disk[moved.destination] = sorter.disk[moved.source]
                /\ sorter'.sorted_images[moved.source].destination = moved.destination
      /\ \A crop \in DOMAIN sorter'.sorted_images :
            LET entry == sorter'.sorted_images[crop]
            IN  /\ CopiesOf(sorter'.disk, crop) = {entry.destination}
                /\ entry.destination.folder = SorterFolder(entry.category) ]_vars

\* A crop was sorted into a folder that already held c1.png and c1_1.png and
\* is now c1_2.png there.
SecondCounterReached ==
  /\ sorter.op = "sort"
  /\ \E crop \in DOMAIN sorter.sorted_images :
        /\ sorter.sorted_images[crop].destination = FilePath("Bo", <<"c1", 2>>)
        /\ FilePath("Bo", <<"c1">>) \in DOMAIN sorter.disk
        /\ FilePath("Bo", <<"c1", 1>>) \in DOMAIN sorter.disk
        /\ sorter.disk[FilePath("Bo", <<"c1", 2>>)] = crop.name

(***************************************************************************)
(* Properties of the sorter's statistics.                                  *)
(***************************************************************************)
\* The metadata entries of one category.
EntriesOf(sorted_images, category) ==
  {q \in DOMAIN sorted_images : sorted_images[q].category = category}

\* C31: in every state of the sorter each counter is the number of metadata
\* entries of its category and is not negative, the session_stats of
\* sorting_metadata.json are the counters in memory, and a sort or an undo
\* leaves that file written.
SorterStatsConsistent ==
  /\ \A category \in Categories :
        /\ sorter.stats[category] =
              Cardinality(EntriesOf(sorter.sorted_images, category))
        /\ sorter.stats[category] >= 0
  /\ sorter.file.session_stats = sorter.stats
  /\ sorter.op \in {"sort", "undo"} => sorter.file.exists

\* An undo took the later of two sorts back and left the earlier one counted.
CountedAfterUndoReached ==
  /\ sorter.op = "undo"
  /\ sorter.history # <<>>
  /\ \E category \in Categories : sorter.stats[category] >= 1

(***************************************************************************)
(* Properties of the pipeline after a failed run.                          *)
(***************************************************************************)
\* run_pipeline is in its except clause (lines 703-707).
RunFailed == \E w \in 1..MaxWorkers : pipeline.workers[w].pc = "error"

\* The state from which start_pipeline starts a run.
PipelineIdle == ~pipeline.is_running /\ pipeline.start_button = "normal"

\* C32 as stated: whenever run_pipeline fails with an exception, the pipeline
\* eventually is idle again: is_running is False and the start button is
\* enabled.
ErrorLeadsToIdle == RunFailed ~> PipelineIdle

(***************************************************************************)
(* Properties of the scraper's cache and of its batch summary.             *)
(***************************************************************************)
\* C33: a download_meme call without force whose id has a recorded success
\* with its file in place returns that path, and one whose id is recorded as
\* skipped returns 'skipped', both without accessing the site or changing
\* anything; every other call (recorded failed or error, recorded success
\* with the file gone, no record, or force) accesses the site and leaves a
\* new entry for the id with status success, skipped, failed or error.
DownloadCache ==
  [][ scraper'.op = "download_meme" =>
        LET meme_id == scraper'.call.start_id
            recorded == meme_id \in DOMAIN scraper.metadata
            hit == /\ ~scraper'.call.force
                   /\ recorded
                   /\ scraper.metadata[meme_id].status = "success"
                   /\ scraper.metadata[meme_id].path \in scraper.files
            skipped == /\ ~scraper'.call.force
                       /\ recorded
                       /\ scraper.metadata[meme_id].status = "skipped"
            untouched == /\ ~scraper'.accessed
                         /\ scraper'.metadata = scraper.metadata
                         /\ scraper'.files = scraper.files
        IN  /\ hit => /\ untouched
                      /\ scraper'.result =
                            Returned("path", scraper.metadata[meme_id].path)
            /\ skipped => /\ untouched
                          /\ scraper'.result = Returned("skipped", NoFile)
            /\ ~(hit \/ skipped) =>
                  /\ scraper'.accessed
                  /\ meme_id \in DOMAIN scraper'.metadata
                  /\ scraper'.metadata[meme_id] =
                        SiteEntry(meme_id, scraper'.call.sites[meme_id])
                  /\ scraper'.metadata[meme_id].status \in
                        {"success", "skipped", "failed", "error"}
                  /\ \A other \in DOMAIN scraper'.metadata \ {meme_id} :
                        /\ other \in DOMAIN scraper.metadata
                        /\ scraper'.metadata[other] = scraper.metadata[other] ]_vars

\* A meme with a recorded success was fetched again without force: its file
\* had been deleted.
RedownloadReached ==
  /\ scraper.op = "download_meme"
  /\ ~scraper.call.force
  /\ scraper.accessed
  /\ scraper.result.kind = "path"
  /\ scraper.had_success

\* What download_meme did for each id of a batch, in order.
RECURSIVE BatchTrace(_, _, _, _, _)
BatchTrace(sc, meme_id, stop, force, sites) ==
  IF meme_id >= stop
  THEN <<>>
  ELSE LET d == download_meme(sc, meme_id, force, sites[meme_id])
       IN  <<[meme_id |-> meme_id, kind |-> d.result.kind, accessed |-> d.accessed]>>
           \o BatchTrace([metadata |-> d.metadata, files |-> d.files],
                         meme_id + 1, stop, force, sites)

\* C34 as stated: the four counters of download_batch add up to count,
\* 'Successfully downloaded' is the number of memes fetched from the site in
\* this call, 'Already existed' the number served from the metadata cache,
\* and the returned mapping holds exactly the ids a path was obtained for.
BatchSummaryExact ==
  [][ scraper'.op = "download_batch" =>
        LET c == scraper'.call
            t == BatchTrace([metadata |-> scraper.metadata, files |-> scraper.files],
                            c.start_id, c.start_id + c.count, c.force, c.sites)
            got == {i \in 1..Len(t) : t[i].kind = "path"}
            sum == scraper'.summary
        IN  /\ sum.success_count + sum.skip_count + sum.no_image_count
                  + sum.fail_count = c.count
            /\ sum.success_count = Cardinality({i \in got : t[i].accessed})
            /\ sum.skip_count = Cardinality({i \in got : ~t[i].accessed})
            /\ {sum.results[k] : k \in 1..Len(sum.results)}
                  = {t[i].meme_id : i \in got} ]_vars

(***************************************************************************)
(* Properties of a batch over distinct images.                             *)
(***************************************************************************)
\* C35 as stated: after segment_batch over distinct source image paths the
\* returned mapping has one entry per input image, and a ledger record kept
\* for an input image names that image as its source_image.
DistinctImagesSeparate ==
  ( /\ op = "batch_end"
    /\ b_pc = "returned"
    /\ \A i, j \in 1..Len(image_paths) : image_paths[i] = image_paths[j] => i = j )
  => /\ Cardinality(DOMAIN results) = Len(image_paths)
     /\ \A i \in 1..Len(image_paths) :
           image_id_of(image_paths[i]) \in DOMAIN metadata
              => metadata[image_id_of(image_paths[i])].source_image = image_paths[i]

(***************************************************************************)
(* Properties of the crop files of an image across runs.                   *)
(***************************************************************************)
\* The crop files <image_id>_char_NN.png of the output directory are exactly
\* the ones the ledger record of image_id lists (none when it has no record).
CropsAsListed(dict, on_disk, image_id) ==
  {crop \in on_disk : crop.id = image_id}
    = IF image_id \in DOMAIN dict THEN Range(dict[image_id].character_crops) ELSE {}

\* C36 as stated: a successful segmentation or re-segmentation of an image
\* whose crop files were exactly those of its record leaves them exactly
\* those of its new record: no crop of an earlier run stays on disk unlisted.
NoStaleCrops ==
  [][ ( /\ op' = "segment_image"
        /\ outcome' = "ok"
        /\ CropsAsListed(metadata, files, image_id_of(s_path')) )
      => CropsAsListed(metadata', files', image_id_of(s_path')) ]_vars

(***************************************************************************)
(* Properties of a failed segment_image call.                              *)
(***************************************************************************)
\* C37: a segment_image call that fails while decoding the source image or
\* while writing a crop file returns the empty list and leaves the ledger,
\* in memory and on disk, as it was: no record appears and no record changes.
LedgerUnchangedOnFailure ==
  [][ (op' = "segment_image" /\ outcome' \in {"decode_error", "write_error"})
      => /\ ret' = <<>>
         /\ metadata' = metadata
         /\ metadata_file' = metadata_file ]_vars

\* The second crop of a forced re-segmentation could not be written: the
\* first was, and the older record of the image is still the ledger's.
OlderRecordKeptReached ==
  /\ op = "segment_image"
  /\ outcome = "write_error"
  /\ s_force
  /\ Len(cropped) = 1
  /\ image_id_of(s_path) \in DOMAIN metadata
  /\ metadata_file = [state |-> "ok", data |-> metadata]

(***************************************************************************)
(* Properties of a record without crops.                                   *)
(***************************************************************************)
\* C38: when the ledger holds a record with an empty character_crops list
\* for an identifier, a segment_image call for it without force returns the
\* empty list from the ledger without invoking the oracle and changes
\* nothing; a call with force does not return from the ledger, and invokes
\* the oracle when the model is loaded and the image decodes.
ZeroCropRecordProcessed ==
  [][ ( /\ op' = "segment_image"
        /\ image_id_of(s_path') \in DOMAIN metadata
        /\ metadata[image_id_of(s_path')].character_crops = <<>> )
      => IF s_force'
         THEN /\ outcome' # "cached"
              /\ outcome' \notin {"no_model", "decode_error"} => oracle_calls' > 0
         ELSE /\ outcome' = "cached"
              /\ ret' = <<>>
              /\ oracle_calls' = 0
              /\ metadata' = metadata
              /\ metadata_file' = metadata_file
              /\ files' = files ]_vars

\* An image whose record lists no crop was asked for again without force
\* and answered from the ledger.
ZeroCropCachedReached ==
  /\ op = "segment_image"
  /\ ~s_force
  /\ outcome = "cached"
  /\ ledger_check = "complete"
  /\ image_id_of(s_path) \in DOMAIN metadata
  /\ metadata[image_id_of(s_path)].character_count = 0
  /\ ret = <<>>

(***************************************************************************)
(* Properties of the crop region and the mask it is cut for.               *)
(***************************************************************************)
\* C39: the bbox is what mask_to_bbox reports for a mask whose outermost
\* true pixels are in columns x0 and x1 and rows y0 and y1 (width x1 - x0,
\* height y1 - y0), and the region [x_min, x_max) x [y_min, y_max) cut for it
\* contains every pixel of columns x0..x1 and rows y0..y1, so every true
\* pixel of the mask.
CropCoversMask ==
  u_pc = "done" =>
    LET x0 == u_in.bbox[1]
        y0 == u_in.bbox[2]
        x1 == u_in.bbox[1] + u_in.bbox[3]
        y1 == u_in.bbox[2] + u_in.bbox[4]
        corners == {y0 * u_in.width + x0, y1 * u_in.width + x1}
    IN  /\ mask_to_bbox(corners, u_in.width) = u_in.bbox
        /\ \A px \in x0..x1, py \in y0..y1 :
              /\ px < u_in.width /\ py < u_in.height
              /\ u_out[1] <= px /\ px < u_out[3]
              /\ u_out[2] <= py /\ py < u_out[4]

\* A mask of one pixel in the last column and last row of the image (bbox of
\* width 0 and height 0) got a region that reaches the image's far edges.
OnePixelCoveredReached ==
  /\ u_pc = "done"
  /\ u_in.bbox[3] = 0 /\ u_in.bbox[4] = 0
  /\ u_in.bbox[1] = u_in.width - 1
  /\ u_in.bbox[2] = u_in.height - 1
  /\ u_out[3] = u_in.width /\ u_out[4] = u_in.height

(***************************************************************************)
(* Properties of captioning a directory twice.                             *)
(***************************************************************************)
\* C40 as stated: a caption_batch that follows a caption_batch over the
\* unchanged directory invokes the tagging model zero times and returns for
\* every image the tag list the first one returned.
CaptionBatchIdempotent ==
  (captioner.op = "caption_batch" /\ captioner.repeated)
     => /\ captioner.invoked = 0
        /\ captioner.results = captioner.previous

====
